---- MODULE Spec2Model ----
(***************************************************************************)
(* Verification model of the music-harmonizer repository: the rhythmic     *)
(* quantizer (quantizeNotes / findBestDuration / groupIntoMeasures), the   *)
(* editor page (notes, measures, settings, asynchronous file loads), the   *)
(* chord track, and the counterpoint harmonizer.                           *)
(*                                                                         *)
(* Numbers.  The program computes in IEEE doubles; the model computes in   *)
(* exact rationals scaled to integers:                                     *)
(*   - times (NoteEvent.startTime, .duration) are in ticks, 840 ticks to   *)
(*     the second;                                                         *)
(*   - quantized beats (durationBeats, startBeat) are in quarter-beat      *)
(*     units, so 'sixteenth' (0.25 beat) is 1 and 'whole-dotted' is 24;    *)
(*   - an unquantized beat count is a fraction bn/bd.                      *)
(***************************************************************************)
EXTENDS Integers, Sequences, FiniteSets, TLC

VARIABLES
    \* ---- harness for the pure functions: the arguments drawn by Init,
    \* ---- the function applied ("idle" before), and its result
    arg, fn, res,
    \* ---- the editor page (Home component) and the chord track
    notes, measures, tempo, minQuantization, beatsPerMeasure, keySignature,
    snapToKeyEnabled, selectedNoteIndex, inputDuration, isMinorKey, chords,
    isAnalyzing, pending, reqSeq, shown, lastOp,
    \* ---- the error of the useAudioAnalysis hook
    error,
    \* ---- the usePlayback hook: its state, its refs, its playFromIndex calls in
    \* ---- flight and the playbacks schedulePlayback has scheduled
    cursorPosition, isPlaying, currentNoteIndex, isLoading, instrumentRef,
    stopFnRef, progressIntervalRef, calls, sessions, userStopped,
    \* ---- the AudioContext's state and the soundfont module's instrument
    audioContextState, instrument,
    \* ---- the chord track's own state (ChordTrack component)
    editingIndex, addingAtBeat,
    \* ---- the number of user events and completions so far
    events

pureVars == <<arg, fn, res>>
playerVars == <<cursorPosition, isPlaying, currentNoteIndex, isLoading, instrumentRef,
                stopFnRef, progressIntervalRef, calls, sessions, userStopped, instrument>>
pageVars == <<notes, measures, tempo, minQuantization, beatsPerMeasure,
              keySignature, snapToKeyEnabled, selectedNoteIndex, inputDuration,
              isMinorKey, chords, isAnalyzing, pending, reqSeq, shown, lastOp,
              error, editingIndex, addingAtBeat, playerVars, audioContextState>>
vars == <<arg, fn, res, notes, measures, tempo, minQuantization,
          beatsPerMeasure, keySignature, snapToKeyEnabled, selectedNoteIndex,
          inputDuration, isMinorKey, chords, isAnalyzing, pending, reqSeq,
          shown, lastOp, error, editingIndex, addingAtBeat, cursorPosition,
          isPlaying, currentNoteIndex, isLoading, instrumentRef, stopFnRef,
          progressIntervalRef, calls, sessions, userStopped, audioContextState,
          instrument, events>>

(***************************************************************************)
(* Arithmetic helpers                                                      *)
(***************************************************************************)
Abs(x) == IF x < 0 THEN -x ELSE x
Max(a, b) == IF a >= b THEN a ELSE b
Min(a, b) == IF a <= b THEN a ELSE b
Sign(x) == IF x > 0 THEN 1 ELSE IF x < 0 THEN -1 ELSE 0
\* Math.floor(n / d) and Math.ceil(n / d) for d > 0
FloorDiv(n, d) == n \div d
CeilDiv(n, d) == -((-n) \div d)
\* Math.round(n / d) for d > 0: JavaScript rounds halves towards +Infinity
RoundDiv(n, d) == (2 * n + d) \div (2 * d)

\* ticks in a minute (840 ticks to the second)
TicksPerMinute == 60 * 840

(***************************************************************************)
(* quantizer.ts                                                            *)
(***************************************************************************)
DurationNames ==
    {"whole-dotted", "whole", "half-dotted", "half", "quarter-dotted",
     "quarter", "eighth-dotted", "eighth", "sixteenth"}

\* DURATION_VALUES, in quarter-beat units
DURATION_VALUES ==
    [d \in DurationNames |->
        CASE d = "whole-dotted"   -> 24
          [] d = "whole"          -> 16
          [] d = "half-dotted"    -> 12
          [] d = "half"           -> 8
          [] d = "quarter-dotted" -> 6
          [] d = "quarter"        -> 4
          [] d = "eighth-dotted"  -> 3
          [] d = "eighth"         -> 2
          [] d = "sixteenth"      -> 1]

\* DURATION_ORDER: longest to shortest
DURATION_ORDER ==
    <<"whole-dotted", "whole", "half-dotted", "half", "quarter-dotted",
      "quarter", "eighth-dotted", "eighth", "sixteenth">>

BaseNames == {"whole", "half", "quarter", "eighth", "sixteenth"}

\* minQuantization.replace('-dotted', '')
StripDotted(d) ==
    CASE d = "whole-dotted"   -> "whole"
      [] d = "half-dotted"    -> "half"
      [] d = "quarter-dotted" -> "quarter"
      [] d = "eighth-dotted"  -> "eighth"
      [] OTHER                -> d

\* MIN_QUANT_INDEX[minQuantBase] ?? 8  (0-based index into DURATION_ORDER)
MinQuantIndexMutant(base) ==
    CASE base = "whole"   -> 2
      [] base = "half"    -> 4
      [] base = "quarter" -> 6
      [] base = "eighth"  -> 8
      [] OTHER            -> 8
MIN_QUANT_INDEX(base) ==
    CASE base = "whole"   -> 1
      [] base = "half"    -> 3
      [] base = "quarter" -> 5
      [] base = "eighth"  -> 7
      [] OTHER            -> 8

\* DURATION_ORDER.slice(0, minIndex + 1)
allowedDurations(minQ) ==
    SubSeq(DURATION_ORDER, 1, MIN_QUANT_INDEX(StripDotted(minQ)) + 1)

\* Math.abs(1 - ratio) for ratio = beats / durBeats, beats = bn/bd and durBeats
\* = k/4, scaled by 480 * bd (480 / k is an integer for every duration value)
ScaledScore(bn, bd, k) == Abs(bd * k - 4 * bn) * (480 \div k)

\* adjustedScore = ratio < 0.7 ? score + 0.3 : score   (same scale)
adjustedScoreMutant(bn, bd, k) ==
    IF 40 * bn > 7 * bd * k
    THEN ScaledScore(bn, bd, k) + 144 * bd
    ELSE ScaledScore(bn, bd, k)
adjustedScore(bn, bd, k) ==
    IF 40 * bn < 7 * bd * k
    THEN ScaledScore(bn, bd, k) + 144 * bd
    ELSE ScaledScore(bn, bd, k)

NoMatch == [name |-> "none", beats |-> 0, score |-> -1]

\* the loop of findBestDuration: the first candidate with a strictly smaller
\* adjusted score replaces the best so far (score -1 stands for Infinity)
RECURSIVE BestLoop(_, _, _, _, _)
BestLoop(bn, bd, allowed, i, best) ==
    IF i > Len(allowed) THEN best
    ELSE LET durName == allowed[i]
             durBeats == DURATION_VALUES[durName]
             s == adjustedScore(bn, bd, durBeats)
         IN  IF best.score = -1 \/ s < best.score
             THEN BestLoop(bn, bd, allowed, i + 1,
                           [name |-> durName, beats |-> durBeats, score |-> s])
             ELSE BestLoop(bn, bd, allowed, i + 1, best)

\* findBestDuration(beats, allowedDurations), beats = bn / bd with bd > 0
findBestDuration(bn, bd, allowed) ==
    IF 5 * bn < bd                       \* beats < 0.2
    THEN [name |-> allowed[Len(allowed)],
          beats |-> DURATION_VALUES[allowed[Len(allowed)]]]
    ELSE IF 2 * bn > 13 * bd             \* beats > 6.5
    THEN [name |-> "whole-dotted", beats |-> 24]
    ELSE LET best == BestLoop(bn, bd, allowed, 1, NoMatch)
         IN  IF best.name = "none"
             THEN [name |-> "quarter", beats |-> 4]
             ELSE [name |-> best.name, beats |-> best.beats]

NOTE_NAMES_SHARP == <<"C", "C#", "D", "D#", "E", "F", "F#", "G", "G#", "A", "A#", "B">>
NOTE_NAMES_FLAT == <<"C", "Db", "D", "Eb", "E", "F", "Gb", "G", "Ab", "A", "Bb", "B">>
FLAT_KEYS == {"F", "Bb", "Eb", "Ab", "Db", "Gb"}

\* midiToNoteName(midi, keySignature): the string `${name}${octave}` as a pair
midiToNoteName(midi, key) ==
    LET octave == FloorDiv(midi, 12) - 1
        noteIndex == midi % 12
        noteNames == IF key \in FLAT_KEYS THEN NOTE_NAMES_FLAT ELSE NOTE_NAMES_SHARP
    IN  <<noteNames[noteIndex + 1], octave>>

\* DURATION_VALUES[minQuantization.replace('-dotted', '')] || 0.25
gridSize(minQ) ==
    IF StripDotted(minQ) \in DurationNames
    THEN DURATION_VALUES[StripDotted(minQ)] ELSE 1

\* (mutant) secondsPerBeat computed as tempo / 60 instead of 60 / tempo
quantizeNoteMutant(note, bpm, minQ, key) ==
    LET g == gridSize(minQ)
        quantizedStartBeat == RoundDiv(4 * note.startTime * 60, 840 * bpm * g) * g
        quantizedDuration ==
            findBestDuration(note.duration * 60, 840 * bpm, allowedDurations(minQ))
    IN  [midi |-> note.midi,
         noteName |-> midiToNoteName(note.midi, key),
         duration |-> quantizedDuration.name,
         durationBeats |-> quantizedDuration.beats,
         startBeat |-> quantizedStartBeat]

\* the body of notes.map(...) in quantizeNotes, for one note
quantizeNote(note, bpm, minQ, key) ==
    LET g == gridSize(minQ)
        \* Math.round(startBeat / gridSize) * gridSize
        quantizedStartBeat == RoundDiv(4 * note.startTime * bpm, TicksPerMinute * g) * g
        quantizedDuration ==
            findBestDuration(note.duration * bpm, TicksPerMinute, allowedDurations(minQ))
    IN  [midi |-> note.midi,
         noteName |-> midiToNoteName(note.midi, key),
         duration |-> quantizedDuration.name,
         durationBeats |-> quantizedDuration.beats,
         startBeat |-> quantizedStartBeat]

\* quantizeNotes(notes, {tempo, minQuantization, keySignature})
quantizeNotes(noteList, bpm, minQ, key) ==
    [i \in 1..Len(noteList) |-> quantizeNote(noteList[i], bpm, minQ, key)]

\* the while loop of groupIntoMeasures ("fill in empty measures if needed"):
\* st = [measures, currentMeasure, currentMeasureStart]
\* the fill loop that forgets the measure it closes
FillLoopMutant(st, expectedMeasureStart, beatsQ) ==
    IF expectedMeasureStart > st.currentMeasureStart
    THEN [measures |-> st.measures, currentMeasure |-> <<>>,
          currentMeasureStart |-> expectedMeasureStart]
    ELSE st

RECURSIVE FillLoop(_, _, _)
FillLoop(st, expectedMeasureStart, beatsQ) ==
    IF expectedMeasureStart > st.currentMeasureStart
    THEN FillLoop(
            [measures |-> IF Len(st.currentMeasure) > 0
                          THEN Append(st.measures, st.currentMeasure)
                          ELSE st.measures,
             currentMeasure |-> <<>>,
             currentMeasureStart |-> st.currentMeasureStart + beatsQ],
            expectedMeasureStart, beatsQ)
    ELSE st

\* the for loop of groupIntoMeasures
RECURSIVE GroupLoop(_, _, _, _)
GroupLoop(qnotes, i, st, beatsQ) ==
    IF i > Len(qnotes) THEN st
    ELSE LET note == qnotes[i]
             measureIndex == FloorDiv(note.startBeat, beatsQ)
             expectedMeasureStart == measureIndex * beatsQ
             filled == FillLoop(st, expectedMeasureStart, beatsQ)
             placed == [note EXCEPT !.startBeat = note.startBeat - filled.currentMeasureStart]
         IN  GroupLoop(qnotes, i + 1,
                       [filled EXCEPT !.currentMeasure = Append(filled.currentMeasure, placed)],
                       beatsQ)

\* groupIntoMeasures(notes, beatsPerMeasure); startBeat in quarter-beat units
groupIntoMeasures(qnotes, beats) ==
    IF Len(qnotes) = 0 THEN <<>>
    ELSE LET st == GroupLoop(qnotes, 1,
                             [measures |-> <<>>, currentMeasure |-> <<>>,
                              currentMeasureStart |-> 0],
                             4 * beats)
         IN  IF Len(st.currentMeasure) > 0
             THEN Append(st.measures, st.currentMeasure)
             ELSE st.measures

(***************************************************************************)
(* Construction: the state of the page after the first render              *)
(***************************************************************************)
PageInit ==
    /\ notes = <<>>
    /\ measures = <<>>
    /\ tempo = 120
    /\ minQuantization = "eighth"
    /\ beatsPerMeasure = 4
    /\ keySignature = "C"
    /\ snapToKeyEnabled = FALSE
    /\ selectedNoteIndex = 0          \* null
    /\ inputDuration = "quarter"
    /\ isMinorKey = FALSE
    /\ chords = <<>>
    /\ isAnalyzing = FALSE
    /\ pending = {}
    /\ reqSeq = 0
    /\ shown = 0
    /\ lastOp = "init"
    /\ error = "null"
    /\ editingIndex = 0               \* null
    /\ addingAtBeat = -1              \* null
    /\ cursorPosition = 0
    /\ isPlaying = FALSE
    /\ currentNoteIndex = -1
    /\ isLoading = FALSE
    /\ instrumentRef = FALSE          \* null
    /\ stopFnRef = 0                  \* null
    /\ progressIntervalRef = FALSE    \* null
    /\ calls = <<>>
    /\ sessions = <<>>
    /\ userStopped = FALSE
    /\ audioContextState = "null"     \* no AudioContext is created yet
    /\ instrument = "null"
    /\ events = 0

(***************************************************************************)
(* The quantizer as pure functions: Init draws the arguments, the actions  *)
(* apply quantizeNotes to one note, or groupIntoMeasures to a note list.   *)
(***************************************************************************)
MaxDurSteps == 1400
MaxStartBeat == 20
MaxGroupNotes == 3

\* note durations, 0 .. 6.67 s in steps of 4 ticks
DurTicks == {4 * k : k \in 0..MaxDurSteps}
StartTicks == {0, 415}
QuantTempos == {60, 120}
QuantArgs ==
    [kind : {"quantize"},
     note : [midi : {61}, startTime : StartTicks, duration : DurTicks, velocity : {80}],
     tempo : QuantTempos, minQ : BaseNames, key : {"C", "F"}]

\* a quantized note as quantizeNotes returns it, the i-th of a list
GroupNote(i, s) ==
    [midi |-> 59 + i, noteName |-> midiToNoteName(59 + i, "C"),
     duration |-> "sixteenth", durationBeats |-> 1, startBeat |-> s]

\* the note lists of at most n notes with non-decreasing startBeat
RECURSIVE SortedLists(_)
SortedLists(n) ==
    IF n = 0 THEN {<<>>}
    ELSE LET S == SortedLists(n - 1)
         IN  S \cup {Append(l, GroupNote(n, s)) :
                        <<l, s>> \in {<<l, s>> \in S \X (0..MaxStartBeat) :
                                        /\ Len(l) = n - 1
                                        /\ n > 1 => l[n - 1].startBeat <= s}}
GroupBeats == {2, 3, 4, 6}
GroupArgs ==
    [kind : {"group"}, qnotes : SortedLists(MaxGroupNotes), beats : GroupBeats]

InitQuant ==
    /\ PageInit
    /\ fn = "idle"
    /\ res = <<>>
    /\ arg \in QuantArgs \cup GroupArgs

ApplyQuantize ==
    /\ fn = "idle"
    /\ arg.kind = "quantize"
    /\ fn' = "quantizeNotes"
    /\ res' = quantizeNotes(<<arg.note>>, arg.tempo, arg.minQ, arg.key)
    /\ UNCHANGED <<arg, pageVars, events>>

ApplyGroup ==
    /\ fn = "idle"
    /\ arg.kind = "group"
    /\ fn' = "groupIntoMeasures"
    /\ res' = groupIntoMeasures(arg.qnotes, arg.beats)
    /\ UNCHANGED <<arg, pageVars, events>>

NextQuant == ApplyQuantize \/ ApplyGroup

SpecQuant == InitQuant /\ [][NextQuant]_vars

(***************************************************************************)
(* Claims about the quantizer (checked under SpecQuant)                    *)
(***************************************************************************)
\* the nine symbols and their beat values as the specification lists them
\* (quarter-beat units)
SymbolBeats ==
    [d \in DurationNames |->
        CASE d = "whole" -> 16 [] d = "whole-dotted" -> 24
          [] d = "half" -> 8 [] d = "half-dotted" -> 12
          [] d = "quarter" -> 4 [] d = "quarter-dotted" -> 6
          [] d = "eighth" -> 2 [] d = "eighth-dotted" -> 3
          [] d = "sixteenth" -> 1]
\* the vocabulary of a minQuantization: the symbols at least as long as it
Vocabulary(minQ) == {d \in DurationNames : SymbolBeats[d] >= SymbolBeats[minQ]}

\* the duration of the harness's note in beats, as the fraction ArgBn / ArgBd
ArgBn == arg.note.duration * arg.tempo
ArgBd == TicksPerMinute
Quantized == fn = "quantizeNotes"
InMatchRange == 5 * ArgBn >= ArgBd /\ 2 * ArgBn <= 13 * ArgBd   \* 0.2 <= b <= 6.5

\* |1 - b/c| as a fraction over b's denominator times c, and the penalty in tenths
Miss(k) == Abs(ArgBd * k - 4 * ArgBn)
PenaltyTenths(k) == IF 40 * ArgBn < 7 * ArgBd * k THEN 3 ELSE 0
\* score(k1) <= score(k2), score(k) = |1 - b/c| + penalty, cross-multiplied
ScoreLeq(k1, k2) ==
    10 * Miss(k1) * k2 + PenaltyTenths(k1) * ArgBd * k1 * k2
        <= 10 * Miss(k2) * k1 + PenaltyTenths(k2) * ArgBd * k1 * k2

\* C1: groupIntoMeasures puts the note with startBeat s into the measure at
\* index floor(s / beatsPerMeasure), at relative startBeat s minus that
\* measure's start, and every measure index that holds no note is an empty
\* measure of the output
C1_MeasureIndexIsFloor ==
    fn = "groupIntoMeasures" =>
        LET beatsQ == 4 * arg.beats
            Index(i) == arg.qnotes[i].startBeat \div beatsQ
        IN  /\ \A i \in 1..Len(arg.qnotes) :
                  /\ Len(res) > Index(i)
                  /\ \E j \in 1..Len(res[Index(i) + 1]) :
                        /\ res[Index(i) + 1][j].midi = arg.qnotes[i].midi
                        /\ res[Index(i) + 1][j].startBeat
                              = arg.qnotes[i].startBeat - Index(i) * beatsQ
            /\ \A m \in 1..Len(res) :
                  (\A i \in 1..Len(arg.qnotes) : Index(i) # m - 1) => res[m] = <<>>

\* C2: for 0.2 <= b <= 6.5 the chosen symbol is in the vocabulary and
\* minimises |1 - b/c| + (0.3 if b/c < 0.7) over the vocabulary; a duration
\* equal to a symbol's beat value gets that symbol
C2_MinimisesPenalisedScore ==
    (Quantized /\ InMatchRange) =>
        LET chosen == res[1].duration
        IN  /\ chosen \in Vocabulary(arg.minQ)
            /\ \A d \in Vocabulary(arg.minQ) :
                  ScoreLeq(SymbolBeats[chosen], SymbolBeats[d])
            /\ \A d \in Vocabulary(arg.minQ) :
                  4 * ArgBn = ArgBd * SymbolBeats[d] => chosen = d

\* C2 witness: a note of exactly 1.5 beats quantized with the penalty in
\* play for the longer symbols
C2_Witness ==
    /\ Quantized /\ InMatchRange
    /\ 4 * ArgBn = 6 * ArgBd
    /\ arg.minQ = "sixteenth"
    /\ res[1].duration = "quarter-dotted"

\* C3: wherever two symbols of the vocabulary have the same unpenalised
\* score |1 - b/c|, the longer of the two is the symbol chosen.  Stated for
\* the two plausible symbols: the tie is between the two best unpenalised
\* scores of the vocabulary
C3_TieGoesToLonger ==
    (Quantized /\ InMatchRange) =>
        \A d1, d2 \in Vocabulary(arg.minQ) :
            (/\ SymbolBeats[d1] > SymbolBeats[d2]
             /\ Miss(SymbolBeats[d1]) * SymbolBeats[d2]
                    = Miss(SymbolBeats[d2]) * SymbolBeats[d1]
             /\ \A d \in Vocabulary(arg.minQ) :
                    Miss(SymbolBeats[d1]) * SymbolBeats[d]
                        <= Miss(SymbolBeats[d]) * SymbolBeats[d1])
                => res[1].duration = d1

\* the round-trip case: 1.0 s at 120 BPM, minQuantization 'sixteenth'
OneSecondAt120 ==
    /\ Quantized
    /\ arg.note.duration = 840 /\ arg.tempo = 120 /\ arg.minQ = "sixteenth"

\* C4 (as stated): 1.0 s at 120 BPM quantizes to 'quarter', durationBeats 1
C4_OneSecondIsQuarter ==
    OneSecondAt120 => res[1].duration = "quarter" /\ res[1].durationBeats = 4

\* C4 (amended): 1.0 s at 120 BPM is two beats and quantizes to 'half',
\* durationBeats 2
C4_OneSecondIsHalf ==
    OneSecondAt120 => res[1].duration = "half" /\ res[1].durationBeats = 8

C4_Witness == OneSecondAt120 /\ arg.note.startTime = 0

\* C5: for every note and every minQuantization the symbol is one of the
\* nine, lies in the vocabulary of minQuantization (exactly the symbols whose
\* beat value is >= that of minQuantization), and durationBeats is the
\* symbol's fixed beat value
C5_SymbolInVocabulary ==
    Quantized =>
        /\ res[1].duration \in DurationNames
        /\ res[1].duration \in Vocabulary(arg.minQ)
        /\ res[1].durationBeats = SymbolBeats[res[1].duration]

\* C5 witness: a degenerate note (shorter than 0.2 beats) under a coarse
\* vocabulary
C5_Witness ==
    /\ Quantized
    /\ 5 * ArgBn < ArgBd
    /\ arg.minQ = "half"
    /\ res[1].duration = "half"

(***************************************************************************)
(* The editor page (Home component): helpers                               *)
(***************************************************************************)
KeyNames == {"C", "G", "D", "A", "E", "B", "F#", "F", "Bb", "Eb", "Ab", "Db"}
KEY_ROOTS(key) ==
    CASE key = "C" -> 0 [] key = "G" -> 7 [] key = "D" -> 2 [] key = "A" -> 9
      [] key = "E" -> 4 [] key = "B" -> 11 [] key = "F#" -> 6 [] key = "F" -> 5
      [] key = "Bb" -> 10 [] key = "Eb" -> 3 [] key = "Ab" -> 8 [] key = "Db" -> 1
      [] OTHER -> 0
MAJOR_SCALE_INTERVALS == {0, 2, 4, 5, 7, 9, 11}
\* the page's getScaleNotes(key): the pitch classes of the major scale
pageScaleNotes(key) == {(KEY_ROOTS(key) + interval) % 12 : interval \in MAJOR_SCALE_INTERVALS}

\* the for loop of snapToKey: +offset is tried before -offset
RECURSIVE SnapLoop(_, _, _)
SnapLoop(midi, scaleNotes, offset) ==
    IF offset > 6 THEN midi
    ELSE IF ((midi % 12) + offset) % 12 \in scaleNotes THEN midi + offset
    ELSE IF ((midi % 12) - offset + 12) % 12 \in scaleNotes THEN midi - offset
    ELSE SnapLoop(midi, scaleNotes, offset + 1)

snapToKey(midi, key) ==
    IF midi % 12 \in pageScaleNotes(key) THEN midi
    ELSE SnapLoop(midi, pageScaleNotes(key), 1)

\* DURATION_BEATS[d] * secondsPerBeat, in ticks
DurationTicks(d, bpm) == (DURATION_VALUES[d] * TicksPerMinute) \div (4 * bpm)
\* beat * secondsPerBeat, in ticks
BeatTicks(beat, bpm) == (beat * TicksPerMinute) \div bpm

\* requantize(noteList, bpm, quantization, beats, key, snapToScale): the value
\* it passes to setMeasures
requantize(noteList, bpm, quantization, beats, key, snapToScale) ==
    IF Len(noteList) = 0 THEN <<>>
    ELSE LET processedNotes ==
                 IF snapToScale
                 THEN [i \in 1..Len(noteList) |->
                          [noteList[i] EXCEPT !.midi = snapToKey(noteList[i].midi, key)]]
                 ELSE noteList
             quantized == quantizeNotes(processedNotes, bpm, quantization, key)
         IN  groupIntoMeasures(quantized, beats)

\* [...list, x].sort((a, b) => a.startTime - b.startTime): the sort is stable
RECURSIVE InsertByStartTime(_, _)
InsertByStartTime(sorted, x) ==
    IF Len(sorted) = 0 THEN <<x>>
    ELSE IF sorted[Len(sorted)].startTime <= x.startTime THEN Append(sorted, x)
    ELSE Append(InsertByStartTime(SubSeq(sorted, 1, Len(sorted) - 1), x),
                sorted[Len(sorted)])
RECURSIVE SortByStartTime(_)
SortByStartTime(list) ==
    IF Len(list) = 0 THEN <<>>
    ELSE InsertByStartTime(SortByStartTime(SubSeq(list, 1, Len(list) - 1)),
                           list[Len(list)])

\* [...chordList].sort((a, b) => a.startBeat - b.startBeat), stable
RECURSIVE InsertByStartBeat(_, _)
InsertByStartBeat(sorted, x) ==
    IF Len(sorted) = 0 THEN <<x>>
    ELSE IF sorted[Len(sorted)].startBeat <= x.startBeat THEN Append(sorted, x)
    ELSE Append(InsertByStartBeat(SubSeq(sorted, 1, Len(sorted) - 1), x),
                sorted[Len(sorted)])
RECURSIVE SortByStartBeat(_)
SortByStartBeat(list) ==
    IF Len(list) = 0 THEN <<>>
    ELSE InsertByStartBeat(SortByStartBeat(SubSeq(list, 1, Len(list) - 1)),
                           list[Len(list)])

\* totalBeats (useMemo): the end of the LAST note of the list, in whole beats
totalBeats(noteList, bpm, beats) ==
    IF Len(noteList) = 0 THEN beats * 4
    ELSE LET lastNote == noteList[Len(noteList)]
         IN  CeilDiv((lastNote.startTime + lastNote.duration) * bpm, TicksPerMinute)

\* (mutant) the last chord always lasts one measure
recalculateDurationsMutant(chordList, total, beats) ==
    LET sorted == SortByStartBeat(chordList)
    IN  [index \in 1..Len(sorted) |->
            [sorted[index] EXCEPT !.durationBeats =
                (IF index < Len(sorted) THEN sorted[index + 1].startBeat
                 ELSE sorted[index].startBeat + beats) - sorted[index].startBeat]]

\* ChordTrack's recalculateDurations(chordList), with the props it closes over
recalculateDurations(chordList, total, beats) ==
    IF Len(chordList) = 0 THEN chordList
    ELSE LET sorted == SortByStartBeat(chordList)
         IN  [index \in 1..Len(sorted) |->
                 LET chord == sorted[index]
                     nextChordStart ==
                         IF index < Len(sorted) THEN sorted[index + 1].startBeat
                         ELSE Max(total, chord.startBeat + beats)
                 IN  [chord EXCEPT !.durationBeats = nextChordStart - chord.startBeat]]

\* the page's recalculateChordDurations(chordList), used by auto-suggest
recalculateChordDurations(chordList, total, beats) ==
    IF Len(chordList) = 0 THEN chordList
    ELSE LET sorted == SortByStartBeat(chordList)
         IN  [index \in 1..Len(sorted) |->
                 LET chord == sorted[index]
                     nextChordStart ==
                         IF index < Len(sorted) THEN sorted[index + 1].startBeat
                         ELSE Max(total, chord.startBeat + beats)
                 IN  [chord EXCEPT !.durationBeats = nextChordStart - chord.startBeat]]

\* ChordTrack: numMeasures = Math.ceil(totalBeats / beatsPerMeasure) || 4
displayBeats(total, beats) ==
    LET numMeasures == IF CeilDiv(total, beats) = 0 THEN 4 ELSE CeilDiv(total, beats)
    IN  numMeasures * beats

(***************************************************************************)
(* chords.ts: suggestChords                                                *)
(***************************************************************************)
NOTE_TO_SEMITONE(name) ==
    CASE name \in {"C", "B#"} -> 0 [] name \in {"C#", "Db"} -> 1
      [] name = "D" -> 2 [] name \in {"D#", "Eb"} -> 3
      [] name \in {"E", "Fb"} -> 4 [] name \in {"F", "E#"} -> 5
      [] name \in {"F#", "Gb"} -> 6 [] name = "G" -> 7
      [] name \in {"G#", "Ab"} -> 8 [] name = "A" -> 9
      [] name \in {"A#", "Bb"} -> 10 [] name \in {"B", "Cb"} -> 11
      [] OTHER -> 0
SEMITONE_TO_NOTE_SHARP ==
    <<"C", "C#", "D", "D#", "E", "F", "F#", "G", "G#", "A", "A#", "B">>
TRIAD_INTERVALS(triad) ==
    CASE triad = "major" -> {0, 4, 7} [] triad = "minor" -> {0, 3, 7}
      [] triad = "diminished" -> {0, 3, 6} [] triad = "augmented" -> {0, 4, 8}
      [] triad = "sus2" -> {0, 2, 7} [] triad = "sus4" -> {0, 5, 7}
      [] triad = "power" -> {0, 7}
MAJOR_SCALE_CHORDS ==
    << [degree |-> 0, triad |-> "major"], [degree |-> 2, triad |-> "minor"],
       [degree |-> 4, triad |-> "minor"], [degree |-> 5, triad |-> "major"],
       [degree |-> 7, triad |-> "major"], [degree |-> 9, triad |-> "minor"],
       [degree |-> 11, triad |-> "diminished"] >>
MINOR_SCALE_CHORDS ==
    << [degree |-> 0, triad |-> "minor"], [degree |-> 2, triad |-> "diminished"],
       [degree |-> 3, triad |-> "major"], [degree |-> 5, triad |-> "minor"],
       [degree |-> 7, triad |-> "major"], [degree |-> 8, triad |-> "major"],
       [degree |-> 10, triad |-> "major"] >>

\* the score of one scale chord against the pitch classes of a region, doubled
\* (one matching pitch scores 2, the root bonus of 0.5 scores 1)
ChordScore2(scaleChord, keyRootSemitone, pitchClasses) ==
    LET chordRoot == (keyRootSemitone + scaleChord.degree) % 12
        chordPitches == {(chordRoot + i) % 12 : i \in TRIAD_INTERVALS(scaleChord.triad)}
    IN  2 * Cardinality(pitchClasses \cap chordPitches)
          + (IF chordRoot \in pitchClasses THEN 1 ELSE 0)

\* for (const scaleChord of scaleChords): best = [index, score2], index 0 = null
RECURSIVE BestChordLoop(_, _, _, _, _)
BestChordLoop(scaleChords, keyRootSemitone, pitchClasses, i, best) ==
    IF i > Len(scaleChords) THEN best
    ELSE LET score2 == ChordScore2(scaleChords[i], keyRootSemitone, pitchClasses)
         IN  BestChordLoop(scaleChords, keyRootSemitone, pitchClasses, i + 1,
                           IF score2 > best.score2
                           THEN [index |-> i, score2 |-> score2] ELSE best)

\* for (let beat = 0; beat < totalBeats; beat += chordInterval)
RECURSIVE SuggestLoop(_, _, _, _, _, _, _)
SuggestLoop(melodyNotes, keyRootSemitone, scaleChords, beats, bpm, total, beat) ==
    IF beat >= total THEN <<>>
    ELSE LET notesInRegion ==
                 {i \in 1..Len(melodyNotes) :
                     /\ melodyNotes[i].startTime * bpm < (beat + beats) * TicksPerMinute
                     /\ (melodyNotes[i].startTime + melodyNotes[i].duration) * bpm
                            > beat * TicksPerMinute}
             pitchClasses == {melodyNotes[i].midi % 12 : i \in notesInRegion}
             best == BestChordLoop(scaleChords, keyRootSemitone, pitchClasses, 1,
                                   [index |-> 0, score2 |-> -2])
             rest == SuggestLoop(melodyNotes, keyRootSemitone, scaleChords, beats,
                                 bpm, total, beat + beats)
         IN  IF notesInRegion # {} /\ best.index # 0 /\ best.score2 > 0
             THEN <<[root |-> SEMITONE_TO_NOTE_SHARP[
                                 ((keyRootSemitone + scaleChords[best.index].degree) % 12) + 1],
                     triad |-> scaleChords[best.index].triad,
                     startBeat |-> beat,
                     durationBeats |-> beats]>> \o rest
             ELSE rest

suggestChords(melodyNotes, keyRoot, isMinor, beats, bpm) ==
    LET total == IF Len(melodyNotes) > 0
                 THEN CeilDiv((melodyNotes[Len(melodyNotes)].startTime
                                 + melodyNotes[Len(melodyNotes)].duration) * bpm,
                              TicksPerMinute)
                 ELSE 0
    IN  SuggestLoop(melodyNotes, NOTE_TO_SEMITONE(keyRoot),
                    IF isMinor THEN MINOR_SCALE_CHORDS ELSE MAJOR_SCALE_CHORDS,
                    beats, bpm, total, 0)

(***************************************************************************)
(* The editor page: note editing and settings handlers.  Each action is    *)
(* one handler, with the requantize call it ends with.                     *)
(***************************************************************************)
MaxNotes == 2
MaxChords == 2
MaxEvents == 4

\* every handler run is one event of a session of at most MaxEvents events
Event == events < MaxEvents /\ events' = events + 1

AddMidis == {60, 67}
AddBeats == {0, 5}
InputDurations == {"quarter", "whole"}
Tempos == {60, 120}

loadVars == <<isAnalyzing, pending, reqSeq, shown, error>>
trackVars == <<editingIndex, addingAtBeat>>
settingVars == <<tempo, minQuantization, beatsPerMeasure, keySignature,
                 snapToKeyEnabled, isMinorKey>>

\* selectedNoteIndex is a valid index (0 models null; indices are 1-based)
HasSelection == selectedNoteIndex >= 1 /\ selectedNoteIndex <= Len(notes)

handleNoteAdd(midi, beat) ==
    LET finalMidi == IF snapToKeyEnabled THEN snapToKey(midi, keySignature) ELSE midi
        newNote == [midi |-> finalMidi,
                    startTime |-> BeatTicks(beat, tempo),
                    duration |-> DurationTicks(inputDuration, tempo),
                    velocity |-> 80]
        updatedNotes == SortByStartTime(Append(notes, newNote))
        newIndex == Cardinality({i \in 1..Len(notes) :
                                    notes[i].startTime <= newNote.startTime}) + 1
    IN  /\ Len(notes) < MaxNotes
        /\ notes' = updatedNotes
        /\ selectedNoteIndex' = newIndex
        /\ measures' = requantize(updatedNotes, tempo, minQuantization,
                                  beatsPerMeasure, keySignature, snapToKeyEnabled)
        /\ lastOp' = "handleNoteAdd"
        /\ Event
        /\ UNCHANGED <<pureVars, playerVars, audioContextState, settingVars, inputDuration, chords, loadVars, trackVars>>

handleNoteSelect(noteIndex) ==
    /\ selectedNoteIndex' = noteIndex
    /\ lastOp' = "handleNoteSelect"
    /\ Event
    /\ UNCHANGED <<pureVars, playerVars, audioContextState, notes, measures, settingVars, inputDuration, chords,
                   loadVars, trackVars>>

handleDeleteNote ==
    /\ HasSelection
    /\ LET updatedNotes == [i \in 1..(Len(notes) - 1) |->
                               IF i < selectedNoteIndex THEN notes[i] ELSE notes[i + 1]]
       IN  /\ notes' = updatedNotes
           /\ measures' = requantize(updatedNotes, tempo, minQuantization,
                                     beatsPerMeasure, keySignature, snapToKeyEnabled)
    /\ selectedNoteIndex' = 0
    /\ lastOp' = "handleDeleteNote"
    /\ Event
    /\ UNCHANGED <<pureVars, playerVars, audioContextState, settingVars, inputDuration, chords, loadVars, trackVars>>

handleClearAll ==
    /\ notes' = <<>>
    /\ measures' = <<>>
    /\ selectedNoteIndex' = 0
    /\ lastOp' = "handleClearAll"
    /\ Event
    /\ UNCHANGED <<pureVars, playerVars, audioContextState, settingVars, inputDuration, chords, loadVars, trackVars>>

handleSelectedNoteDurationChange(newDuration) ==
    /\ inputDuration' = newDuration
    /\ IF HasSelection
       THEN LET updatedNotes ==
                    [notes EXCEPT ![selectedNoteIndex].duration =
                                      DurationTicks(newDuration, tempo)]
            IN  /\ notes' = updatedNotes
                /\ measures' = requantize(updatedNotes, tempo, minQuantization,
                                          beatsPerMeasure, keySignature,
                                          snapToKeyEnabled)
       ELSE UNCHANGED <<notes, measures>>
    /\ lastOp' = "handleSelectedNoteDurationChange"
    /\ Event
    /\ UNCHANGED <<pureVars, playerVars, audioContextState, settingVars, selectedNoteIndex, chords, loadVars, trackVars>>

handleTempoChange(newTempo) ==
    /\ tempo' = newTempo
    /\ measures' = requantize(notes, newTempo, minQuantization, beatsPerMeasure,
                              keySignature, snapToKeyEnabled)
    /\ lastOp' = "handleTempoChange"
    /\ Event
    /\ UNCHANGED <<pureVars, playerVars, audioContextState, notes, minQuantization, beatsPerMeasure, keySignature,
                   snapToKeyEnabled, isMinorKey, selectedNoteIndex, inputDuration,
                   chords, loadVars, trackVars>>

(***************************************************************************)
(* The chord track (ChordTrack component) and the auto-suggest button.     *)
(* A mouse press outside an open chord editor closes it first              *)
(* (handleClickOutside), so the track's own mouse handlers run with the    *)
(* editor closed.                                                          *)
(***************************************************************************)
ClickBeats == {0, 2, 9}
ChordRoots == {"C", "G"}
EditedDurations == {1, 3}

TotalBeatsNow == totalBeats(notes, tempo, beatsPerMeasure)
EditorClosed == editingIndex = 0 /\ addingAtBeat = -1
noteVars == <<notes, measures, selectedNoteIndex, inputDuration>>

handleTrackClick(clickedBeat) ==
    /\ EditorClosed
    /\ clickedBeat < displayBeats(TotalBeatsNow, beatsPerMeasure)
    /\ addingAtBeat' = clickedBeat
    /\ lastOp' = "handleTrackClick"
    /\ Event
    /\ UNCHANGED <<pureVars, playerVars, audioContextState, noteVars, settingVars, chords, loadVars, editingIndex>>

handleChordDoubleClick(index) ==
    /\ EditorClosed
    /\ index \in 1..Len(chords)
    /\ editingIndex' = index
    /\ addingAtBeat' = -1
    /\ lastOp' = "handleChordDoubleClick"
    /\ Event
    /\ UNCHANGED <<pureVars, playerVars, audioContextState, noteVars, settingVars, chords, loadVars>>

\* onClose of either editor (Escape, Cancel, a press outside)
closeChordEditor ==
    /\ ~EditorClosed
    /\ editingIndex' = 0
    /\ addingAtBeat' = -1
    /\ lastOp' = "closeChordEditor"
    /\ Event
    /\ UNCHANGED <<pureVars, playerVars, audioContextState, noteVars, settingVars, chords, loadVars>>

\* Save in the add editor: the chord offered is {root: keySignature, triad,
\* startBeat: addingAtBeat, durationBeats: beatsPerMeasure} with the user's
\* edits of root and durationBeats
handleAddChord(root, duration) ==
    /\ addingAtBeat # -1
    /\ Len(chords) < MaxChords
    /\ LET chord == [root |-> root,
                     triad |-> IF isMinorKey THEN "minor" ELSE "major",
                     startBeat |-> addingAtBeat,
                     durationBeats |-> duration]
       IN  chords' = recalculateDurations(Append(chords, chord), TotalBeatsNow,
                                          beatsPerMeasure)
    /\ addingAtBeat' = -1
    /\ lastOp' = "handleAddChord"
    /\ Event
    /\ UNCHANGED <<pureVars, playerVars, audioContextState, noteVars, settingVars, loadVars, editingIndex>>

\* Save in the edit editor: the edited copy of chords[editingIndex]
handleSaveChord(root, duration) ==
    /\ editingIndex \in 1..Len(chords)
    /\ LET chord == [chords[editingIndex] EXCEPT !.root = root,
                                                 !.durationBeats = duration]
       IN  chords' = recalculateDurations([chords EXCEPT ![editingIndex] = chord],
                                          TotalBeatsNow, beatsPerMeasure)
    /\ editingIndex' = 0
    /\ lastOp' = "handleSaveChord"
    /\ Event
    /\ UNCHANGED <<pureVars, playerVars, audioContextState, noteVars, settingVars, loadVars, addingAtBeat>>

\* the chord block's delete button, or Delete in the edit editor
handleDeleteChord(index) ==
    /\ index \in 1..Len(chords)
    /\ \/ EditorClosed
       \/ editingIndex = index
    /\ LET newChords == [i \in 1..(Len(chords) - 1) |->
                            IF i < index THEN chords[i] ELSE chords[i + 1]]
       IN  chords' = recalculateDurations(newChords, TotalBeatsNow, beatsPerMeasure)
    /\ editingIndex' = 0
    /\ lastOp' = "handleDeleteChord"
    /\ Event
    /\ UNCHANGED <<pureVars, playerVars, audioContextState, noteVars, settingVars, loadVars, addingAtBeat>>

handleSuggestChords ==
    /\ EditorClosed
    /\ Len(notes) # 0
    /\ LET suggested == suggestChords(notes, keySignature, isMinorKey,
                                      beatsPerMeasure, tempo)
       IN  chords' = recalculateChordDurations(suggested, TotalBeatsNow,
                                               beatsPerMeasure)
    /\ lastOp' = "handleSuggestChords"
    /\ Event
    /\ UNCHANGED <<pureVars, playerVars, audioContextState, noteVars, settingVars, loadVars, trackVars>>

InitChords ==
    /\ PageInit
    /\ arg = <<>>
    /\ fn = "idle"
    /\ res = <<>>

NextChords ==
    \/ \E midi \in AddMidis, beat \in AddBeats : handleNoteAdd(midi, beat)
    \/ \E noteIndex \in 0..Len(notes) : handleNoteSelect(noteIndex)
    \/ handleDeleteNote
    \/ handleClearAll
    \/ \E d \in InputDurations : handleSelectedNoteDurationChange(d)
    \/ \E t \in Tempos : handleTempoChange(t)
    \/ \E b \in ClickBeats : handleTrackClick(b)
    \/ \E i \in 1..Len(chords) : handleChordDoubleClick(i)
    \/ closeChordEditor
    \/ \E r \in ChordRoots, d \in EditedDurations : handleAddChord(r, d)
    \/ \E r \in ChordRoots, d \in EditedDurations : handleSaveChord(r, d)
    \/ \E i \in 1..Len(chords) : handleDeleteChord(i)
    \/ handleSuggestChords

SpecChords == InitChords /\ [][NextChords]_vars

(***************************************************************************)
(* Claims about the chord track (checked under SpecChords)                 *)
(***************************************************************************)
\* consecutive chords are in startBeat order and each ends where the next starts
NoGapNoOverlap(chordList) ==
    \A i \in 1..(Len(chordList) - 1) :
        /\ chordList[i].startBeat <= chordList[i + 1].startBeat
        /\ chordList[i].startBeat + chordList[i].durationBeats
              = chordList[i + 1].startBeat
\* the last chord ends at or after the given number of beats
CoversPiece(chordList, total) ==
    Len(chordList) > 0 =>
        chordList[Len(chordList)].startBeat
           + chordList[Len(chordList)].durationBeats >= total
ChordOps == {"handleAddChord", "handleSaveChord", "handleDeleteChord",
             "handleSuggestChords"}

\* C6: right after a chord add, a chord save, a chord delete or an auto-suggest,
\* the chord list is sorted by startBeat, every chord ends exactly where the
\* next one starts, and the last chord ends at or after the piece's total beats
\* (the total beats of that moment: a chord operation leaves the notes alone).
C6_RecalculatedChordsPartition ==
    lastOp \in ChordOps =>
        /\ NoGapNoOverlap(chords)
        /\ CoversPiece(chords, TotalBeatsNow)
\* C6 witness: a chord was just added next to another one at a different beat,
\* and a measure from the last chord's start would not reach the end of the piece
C6_Witness ==
    /\ lastOp = "handleAddChord"
    /\ Len(chords) = 2
    /\ chords[1].startBeat < chords[2].startBeat
    /\ chords[2].startBeat + beatsPerMeasure < TotalBeatsNow

\* C7: in every reachable state of the editor, whatever the interleaving of
\* chord operations with note add, note delete, note duration change, tempo
\* change and clear-all, a non-empty chord list has no gap or overlap and its
\* last chord ends at or after the CURRENT total beats of the melody.
C7_ChordsAlwaysPartition ==
    Len(chords) > 0 =>
        /\ NoGapNoOverlap(chords)
        /\ CoversPiece(chords, TotalBeatsNow)

(***************************************************************************)
(* The editor page: the remaining settings and note handlers               *)
(***************************************************************************)
Quantizations == {"eighth", "quarter"}
BeatsPerMeasureOptions == {3, 4}
KeyChoices == {"C", "D"}
Transpositions == {-12, 1}
DraggedMidis == {61}
LoadAddMidis == {61}
LoadAddBeats == {0}

handleQuantizationChange(newQuantization) ==
    /\ minQuantization' = newQuantization
    /\ measures' = requantize(notes, tempo, newQuantization, beatsPerMeasure,
                              keySignature, snapToKeyEnabled)
    /\ lastOp' = "handleQuantizationChange"
    /\ Event
    /\ UNCHANGED <<pureVars, playerVars, audioContextState, notes, tempo, beatsPerMeasure, keySignature,
                   snapToKeyEnabled, isMinorKey, selectedNoteIndex, inputDuration,
                   chords, loadVars, trackVars>>

handleBeatsPerMeasureChange(newBeats) ==
    /\ beatsPerMeasure' = newBeats
    /\ measures' = requantize(notes, tempo, minQuantization, newBeats,
                              keySignature, snapToKeyEnabled)
    /\ lastOp' = "handleBeatsPerMeasureChange"
    /\ Event
    /\ UNCHANGED <<pureVars, playerVars, audioContextState, notes, tempo, minQuantization, keySignature,
                   snapToKeyEnabled, isMinorKey, selectedNoteIndex, inputDuration,
                   chords, loadVars, trackVars>>

\* onChange of the key select
handleKeyChange(newKey) ==
    /\ keySignature' = newKey
    /\ measures' = requantize(notes, tempo, minQuantization, beatsPerMeasure,
                              newKey, snapToKeyEnabled)
    /\ lastOp' = "handleKeyChange"
    /\ Event
    /\ UNCHANGED <<pureVars, playerVars, audioContextState, notes, tempo, minQuantization, beatsPerMeasure,
                   snapToKeyEnabled, isMinorKey, selectedNoteIndex, inputDuration,
                   chords, loadVars, trackVars>>

\* onChange of the snap-to-key checkbox
handleSnapToggle ==
    /\ snapToKeyEnabled' = ~snapToKeyEnabled
    /\ measures' = requantize(notes, tempo, minQuantization, beatsPerMeasure,
                              keySignature, ~snapToKeyEnabled)
    /\ lastOp' = "handleSnapToggle"
    /\ Event
    /\ UNCHANGED <<pureVars, playerVars, audioContextState, notes, tempo, minQuantization, beatsPerMeasure,
                   keySignature, isMinorKey, selectedNoteIndex, inputDuration,
                   chords, loadVars, trackVars>>

handleTranspose(semitones) ==
    /\ Len(notes) # 0
    /\ LET transposedNotes ==
               [i \in 1..Len(notes) |->
                   [notes[i] EXCEPT !.midi = Max(21, Min(108, notes[i].midi + semitones))]]
       IN  /\ notes' = transposedNotes
           /\ measures' = requantize(transposedNotes, tempo, minQuantization,
                                     beatsPerMeasure, keySignature, snapToKeyEnabled)
    /\ lastOp' = "handleTranspose"
    /\ Event
    /\ UNCHANGED <<pureVars, playerVars, audioContextState, settingVars, selectedNoteIndex, inputDuration, chords,
                   loadVars, trackVars>>

\* a pitch drag in the piano roll (noteIndex is 1-based here)
handleNoteChange(noteIndex, newMidi) ==
    /\ noteIndex \in 1..Len(notes)
    /\ LET finalMidi == IF snapToKeyEnabled THEN snapToKey(newMidi, keySignature)
                        ELSE newMidi
           updatedNotes == [notes EXCEPT ![noteIndex].midi = finalMidi]
       IN  /\ notes' = updatedNotes
           /\ measures' = requantize(updatedNotes, tempo, minQuantization,
                                     beatsPerMeasure, keySignature, snapToKeyEnabled)
    /\ lastOp' = "handleNoteChange"
    /\ Event
    /\ UNCHANGED <<pureVars, playerVars, audioContextState, settingVars, selectedNoteIndex, inputDuration, chords,
                   loadVars, trackVars>>

(***************************************************************************)
(* MIDI import (parseMidiFile).  A file is its sequence of bytes.  A byte  *)
(* read past the end of a Uint8Array is undefined, which every bit         *)
(* operation of the parser takes as 0 and String.fromCharCode as "\0".     *)
(* A note's startTime and duration are in ticks of 1/840 s, as everywhere. *)
(***************************************************************************)
\* data[pos] as the bit operations see it (0-based position)
ByteAt(data, pos) == IF pos >= 0 /\ pos < Len(data) THEN data[pos + 1] ELSE 0

\* data.slice(from, to)
Slice(data, from, to) == SubSeq(data, Max(from, 0) + 1, Min(to, Len(data)))

\* (a << 24) | (b << 16) | (c << 8) | d as a signed 32-bit integer
Int32Of(a, b, c, d) == (((IF a >= 128 THEN a - 256 ELSE a) * 256 + b) * 256 + c) * 256 + d

ChunkMThd == <<77, 84, 104, 100>>
ChunkMTrk == <<77, 84, 114, 107>>

readChunk(data, pos) ==
    LET length == Int32Of(ByteAt(data, pos + 4), ByteAt(data, pos + 5), ByteAt(data, pos + 6), ByteAt(data, pos + 7))
    IN  [type |-> <<ByteAt(data, pos), ByteAt(data, pos + 1), ByteAt(data, pos + 2), ByteAt(data, pos + 3)>>,
         length |-> length,
         data |-> Slice(data, pos + 8, pos + 8 + length)]

RECURSIVE VariableLengthLoop(_, _, _)
VariableLengthLoop(data, pos, value) ==
    LET byte == ByteAt(data, pos)
        next == value * 128 + (byte % 128)
    IN  IF byte >= 128 THEN VariableLengthLoop(data, pos + 1, next)
        ELSE [value |-> next, newPos |-> pos + 1]

readVariableLength(data, pos) == VariableLengthLoop(data, pos, 0)

\* trackChunk.data[trackPos++] where the value itself is kept: -1 is undefined
ValueAt(data, pos) == IF pos >= 0 /\ pos < Len(data) THEN data[pos + 1] ELSE -1

\* Math.round(60000000 / microsecondsPerBeat); 0 stands for Infinity
TempoOfMicroseconds(microsecondsPerBeat) == IF microsecondsPerBeat = 0 THEN 0 ELSE RoundDiv(60000000, microsecondsPerBeat)

\* the meta event branch: st.trackPos is at the meta type
MetaEvent(td, st, metaType, lengthResult) ==
    [st EXCEPT !.trackPos = lengthResult.newPos + lengthResult.value,
               !.tempo = IF metaType = 81 /\ lengthResult.value = 3
                         THEN TempoOfMicroseconds((ByteAt(td, lengthResult.newPos) * 256
                                                   + ByteAt(td, lengthResult.newPos + 1)) * 256
                                                  + ByteAt(td, lengthResult.newPos + 2))
                         ELSE @,
               !.ended = (metaType = 47)]

\* the branches on the event byte; st.trackPos is at the first data byte and
\* st.absoluteTick is the event's tick
ChannelEvent(td, st, eventByte) ==
    LET eventType == eventByte - (eventByte % 16)
        note == ValueAt(td, st.trackPos)
        velocity == ValueAt(td, st.trackPos + 1)
    IN  CASE eventType = 144 ->
               [st EXCEPT !.trackPos = @ + 2,
                          !.noteEvents = Append(@, [tick |-> st.absoluteTick,
                                                    type |-> IF velocity > 0 THEN "on" ELSE "off",
                                                    note |-> note,
                                                    velocity |-> IF velocity > 0 THEN velocity ELSE 0])]
          [] eventType = 128 ->
               [st EXCEPT !.trackPos = @ + 2,
                          !.noteEvents = Append(@, [tick |-> st.absoluteTick, type |-> "off",
                                                    note |-> note, velocity |-> velocity])]
          [] eventType \in {160, 176, 224} -> [st EXCEPT !.trackPos = @ + 2]
          [] eventType \in {192, 208} -> [st EXCEPT !.trackPos = @ + 1]
          [] eventByte = 255 ->
               MetaEvent(td, [st EXCEPT !.trackPos = @ + 1], ByteAt(td, st.trackPos),
                         readVariableLength(td, st.trackPos + 1))
          [] eventByte \in {240, 247} ->
               [st EXCEPT !.trackPos = readVariableLength(td, st.trackPos).newPos
                                       + readVariableLength(td, st.trackPos).value]
          [] OTHER -> st

\* the running-status step; raw is the byte after the delta time (-1: undefined)
StatusStep(td, st, raw) ==
    IF raw >= 0 /\ raw < 128
    THEN ChannelEvent(td, st, st.runningStatus)
    ELSE ChannelEvent(td,
                      [st EXCEPT !.trackPos = @ + 1,
                                 !.runningStatus = IF raw >= 0 /\ raw < 240 THEN raw ELSE @],
                      IF raw < 0 THEN 0 ELSE raw)

\* one iteration of the while loop over a track's events
TrackStep(td, st, deltaResult) ==
    StatusStep(td,
               [st EXCEPT !.trackPos = deltaResult.newPos,
                          !.absoluteTick = @ + deltaResult.value],
               ValueAt(td, deltaResult.newPos))

RECURSIVE TrackLoop(_, _)
TrackLoop(td, st) ==
    IF st.ended \/ st.trackPos >= Len(td) THEN st
    ELSE TrackLoop(td, TrackStep(td, st, readVariableLength(td, st.trackPos)))

\* the parse of one track chunk, from the tempo and the events read so far
parseTrack(td, tempoSoFar, eventsSoFar) ==
    TrackLoop(td, [trackPos |-> 0, absoluteTick |-> 0, runningStatus |-> 0,
                   tempo |-> tempoSoFar, noteEvents |-> eventsSoFar, ended |-> FALSE])

\* one iteration of the loop over the track chunks
ChunkStep(acc, trackChunk) ==
    IF trackChunk.type # ChunkMTrk
    THEN [acc EXCEPT !.pos = @ + 8 + trackChunk.length]
    ELSE [pos |-> acc.pos + 8 + trackChunk.length,
          tempo |-> parseTrack(trackChunk.data, acc.tempo, acc.noteEvents).tempo,
          noteEvents |-> parseTrack(trackChunk.data, acc.tempo, acc.noteEvents).noteEvents]

RECURSIVE ChunkLoop(_, _, _, _)
ChunkLoop(data, track, numTracks, acc) ==
    IF track < numTracks /\ acc.pos < Len(data)
    THEN ChunkLoop(data, track + 1, numTracks, ChunkStep(acc, readChunk(data, acc.pos)))
    ELSE acc

\* noteEvents.sort((a, b) => a.tick - b.tick): a stable sort
RECURSIVE InsertByTick(_, _)
InsertByTick(sorted, x) ==
    IF sorted = <<>> THEN <<x>>
    ELSE IF sorted[Len(sorted)].tick <= x.tick THEN Append(sorted, x)
    ELSE Append(InsertByTick(SubSeq(sorted, 1, Len(sorted) - 1), x), sorted[Len(sorted)])

RECURSIVE SortByTick(_)
SortByTick(list) ==
    IF list = <<>> THEN <<>>
    ELSE InsertByTick(SortByTick(SubSeq(list, 1, Len(list) - 1)), list[Len(list)])

\* ticksToSeconds, in ticks of 1/840 s; it reads the tempo variable when it
\* is called, after all tracks are parsed
ticksToSeconds(ticks, ticksPerBeat, tempoRead) ==
    IF tempoRead = 0 \/ ticksPerBeat = 0 THEN 0
    ELSE RoundDiv(ticks * TicksPerMinute, ticksPerBeat * tempoRead)

MinImportedDuration == 42

\* the note a note-off closes
PairedNote(noteOn, event, ticksPerBeat, tempoRead) ==
    [midi |-> event.note,
     startTime |-> ticksToSeconds(noteOn.tick, ticksPerBeat, tempoRead),
     duration |-> Max(MinImportedDuration,
                      ticksToSeconds(event.tick, ticksPerBeat, tempoRead)
                      - ticksToSeconds(noteOn.tick, ticksPerBeat, tempoRead)),
     velocity |-> noteOn.velocity]

\* the loop over the sorted events; activeNotes is the Map from note to note-on
RECURSIVE PairLoop(_, _, _, _, _, _)
PairLoop(noteEvents, i, activeNotes, noteList, ticksPerBeat, tempoRead) ==
    IF i > Len(noteEvents) THEN noteList
    ELSE IF noteEvents[i].type = "on"
    THEN PairLoop(noteEvents, i + 1,
                  [n \in DOMAIN activeNotes \cup {noteEvents[i].note} |->
                      IF n = noteEvents[i].note
                      THEN [tick |-> noteEvents[i].tick, velocity |-> noteEvents[i].velocity]
                      ELSE activeNotes[n]],
                  noteList, ticksPerBeat, tempoRead)
    ELSE IF noteEvents[i].note \in DOMAIN activeNotes
    THEN PairLoop(noteEvents, i + 1,
                  [n \in DOMAIN activeNotes \ {noteEvents[i].note} |-> activeNotes[n]],
                  Append(noteList, PairedNote(activeNotes[noteEvents[i].note], noteEvents[i],
                                              ticksPerBeat, tempoRead)),
                  ticksPerBeat, tempoRead)
    ELSE PairLoop(noteEvents, i + 1, activeNotes, noteList, ticksPerBeat, tempoRead)

\* remove leading silence
normalizeImported(noteList) ==
    IF noteList = <<>> THEN noteList
    ELSE [k \in 1..Len(noteList) |->
             [noteList[k] EXCEPT !.startTime = @ - noteList[1].startTime]]

\* everything after the header check
parseTracks(data, numTracks, ticksPerBeat, acc) ==
    [outcome |-> "resolved",
     notes |-> normalizeImported(SortByStartTime(
                   PairLoop(SortByTick(acc.noteEvents), 1, <<>>, <<>>, ticksPerBeat, acc.tempo))),
     tempo |-> acc.tempo]

\* parseMidiFile without its header check
parseHeaderMutant(data, headerChunk) ==
    parseTracks(data,
                ByteAt(headerChunk.data, 2) * 256 + ByteAt(headerChunk.data, 3),
                ByteAt(headerChunk.data, 4) * 256 + ByteAt(headerChunk.data, 5),
                ChunkLoop(data, 0,
                          ByteAt(headerChunk.data, 2) * 256 + ByteAt(headerChunk.data, 3),
                          [pos |-> 8 + headerChunk.length, tempo |-> 120, noteEvents |-> <<>>]))

parseHeader(data, headerChunk) ==
    IF headerChunk.type # ChunkMThd
    THEN [outcome |-> "rejected", notes |-> <<>>, tempo |-> 0]
    ELSE parseTracks(data,
                     ByteAt(headerChunk.data, 2) * 256 + ByteAt(headerChunk.data, 3),
                     ByteAt(headerChunk.data, 4) * 256 + ByteAt(headerChunk.data, 5),
                     ChunkLoop(data, 0,
                               ByteAt(headerChunk.data, 2) * 256 + ByteAt(headerChunk.data, 3),
                               [pos |-> 8 + headerChunk.length, tempo |-> 120, noteEvents |-> <<>>]))

parseMidiFile(data) == parseHeader(data, readChunk(data, 0))

(***************************************************************************)
(* Asynchronous loads.  handleFileSelect and handleMidiSelect run up to    *)
(* their await in one step; the rest of the handler runs when the promise  *)
(* settles, with the settings its closure captured at the call.  What      *)
(* analyze / parseMidiFile make of a file is an input of this part of the  *)
(* model: one fixed result per file.                                       *)
(***************************************************************************)
AudioFiles == {"song.wav", "hum.wav", "silence.wav", "noise.wav"}
MidiFiles == {"tune.mid", "riff.mid", "empty.mid", "broken.mid"}

\* the AnalysisResult of analyze(file), or the rejection of the promise with
\* the message of the error decodeAudioFile threw; tempoConfidence in hundredths
analyzeResult(file) ==
    CASE file = "song.wav" ->
            [outcome |-> "resolved", message |-> "",
             notes |-> << [midi |-> 61, startTime |-> 0, duration |-> 280, velocity |-> 90],
                          [midi |-> 64, startTime |-> 2800, duration |-> 560, velocity |-> 70] >>,
             detectedTempo |-> 90, tempoConfidence |-> 80]
      [] file = "hum.wav" ->
            [outcome |-> "resolved", message |-> "",
             notes |-> << [midi |-> 66, startTime |-> 0, duration |-> 210, velocity |-> 60] >>,
             detectedTempo |-> 100, tempoConfidence |-> 10]
      [] file = "silence.wav" ->
            [outcome |-> "resolved", message |-> "", notes |-> <<>>,
             detectedTempo |-> 120, tempoConfidence |-> 0]
      [] OTHER ->
            [outcome |-> "rejected", message |-> "Unable to decode audio data",
             notes |-> <<>>, detectedTempo |-> 0, tempoConfidence |-> 0]

\* the bytes of broken.mid: a RIFF wave header where the MThd chunk should be
BrokenMidiFile == <<82, 73, 70, 70, 0, 0, 0, 6, 0, 0, 0, 1, 1, 224>>

\* the MidiImportResult of parseMidiFile(file), or the rejection of its promise
parseMidiFileResult(file) ==
    CASE file = "tune.mid" ->
            [outcome |-> "resolved",
             notes |-> << [midi |-> 60, startTime |-> 0, duration |-> 420, velocity |-> 100],
                          [midi |-> 62, startTime |-> 4200, duration |-> 840, velocity |-> 100] >>,
             tempo |-> 60]
      [] file = "riff.mid" ->
            [outcome |-> "resolved",
             notes |-> << [midi |-> 70, startTime |-> 210, duration |-> 210, velocity |-> 100] >>,
             tempo |-> 120]
      [] file = "empty.mid" ->
            [outcome |-> "resolved", notes |-> <<>>, tempo |-> 120]
      [] OTHER -> parseMidiFile(BrokenMidiFile)

\* the values a load handler's closure holds at the call
Captured(kind, file) ==
    [id |-> reqSeq + 1, kind |-> kind, file |-> file, tempo |-> tempo,
     minQuantization |-> minQuantization, beatsPerMeasure |-> beatsPerMeasure,
     keySignature |-> keySignature, snapToKeyEnabled |-> snapToKeyEnabled]

\* handleFileSelect up to `await analyze(file)`; the uploader is disabled
\* while isAnalyzing
handleFileSelect(file) ==
    /\ ~isAnalyzing
    /\ notes' = <<>>
    /\ measures' = <<>>
    /\ selectedNoteIndex' = 0
    /\ isAnalyzing' = TRUE
    /\ error' = "null"
    /\ pending' = pending \cup {Captured("audio", file)}
    /\ reqSeq' = reqSeq + 1
    /\ shown' = 0
    /\ lastOp' = "handleFileSelect"
    /\ Event
    /\ UNCHANGED <<pureVars, playerVars, audioContextState, settingVars, inputDuration, chords, trackVars>>

\* analyze settles (its finally clears isAnalyzing) and handleFileSelect resumes
analyzeSettled(req) ==
    /\ req \in pending
    /\ req.kind = "audio"
    /\ isAnalyzing' = FALSE
    /\ pending' = pending \ {req}
    /\ error' = IF analyzeResult(req.file).outcome = "rejected"
                THEN analyzeResult(req.file).message ELSE error
    /\ LET result == analyzeResult(req.file)
           effectiveTempo == IF result.tempoConfidence >= 30
                             THEN result.detectedTempo ELSE req.tempo
       IN  IF result.outcome = "rejected" \/ Len(result.notes) = 0
           THEN UNCHANGED <<notes, measures, tempo, shown>>
           ELSE /\ tempo' = IF result.tempoConfidence >= 30
                               /\ result.detectedTempo # req.tempo
                            THEN result.detectedTempo ELSE tempo
                /\ notes' = result.notes
                /\ measures' = requantize(result.notes, effectiveTempo,
                                          req.minQuantization, req.beatsPerMeasure,
                                          req.keySignature, req.snapToKeyEnabled)
                /\ shown' = req.id
    /\ audioContextState' = "running"    \* analyze awaited resumeContext()
    /\ lastOp' = "analyzeSettled"
    /\ Event
    /\ UNCHANGED <<pureVars, playerVars, minQuantization, beatsPerMeasure, keySignature,
                   snapToKeyEnabled, isMinorKey, selectedNoteIndex, inputDuration,
                   chords, reqSeq, trackVars>>

\* handleMidiSelect up to `await parseMidiFile(file)`; isAnalyzing is not set
handleMidiSelect(file) ==
    /\ ~isAnalyzing
    /\ notes' = <<>>
    /\ measures' = <<>>
    /\ selectedNoteIndex' = 0
    /\ pending' = pending \cup {Captured("midi", file)}
    /\ reqSeq' = reqSeq + 1
    /\ shown' = 0
    /\ lastOp' = "handleMidiSelect"
    /\ Event
    /\ UNCHANGED <<pureVars, playerVars, audioContextState, settingVars, inputDuration, chords, isAnalyzing, error,
                   trackVars>>

\* parseMidiFile settles and handleMidiSelect resumes
parseMidiSettled(req) ==
    /\ req \in pending
    /\ req.kind = "midi"
    /\ pending' = pending \ {req}
    /\ LET result == parseMidiFileResult(req.file)
       IN  IF result.outcome = "rejected" \/ Len(result.notes) = 0
           THEN UNCHANGED <<notes, measures, tempo, shown>>
           ELSE /\ tempo' = result.tempo
                /\ notes' = result.notes
                /\ measures' = requantize(result.notes, result.tempo,
                                          req.minQuantization, req.beatsPerMeasure,
                                          req.keySignature, req.snapToKeyEnabled)
                /\ shown' = req.id
    /\ lastOp' = "parseMidiSettled"
    /\ Event
    /\ UNCHANGED <<pureVars, playerVars, audioContextState, minQuantization, beatsPerMeasure, keySignature,
                   snapToKeyEnabled, isMinorKey, selectedNoteIndex, inputDuration,
                   chords, isAnalyzing, error, reqSeq, trackVars>>

InitLoad ==
    /\ PageInit
    /\ arg = <<>>
    /\ fn = "idle"
    /\ res = <<>>

NextLoad ==
    \/ \E file \in AudioFiles : handleFileSelect(file)
    \/ \E req \in pending : analyzeSettled(req)
    \/ \E file \in MidiFiles : handleMidiSelect(file)
    \/ \E req \in pending : parseMidiSettled(req)
    \/ \E t \in Tempos : handleTempoChange(t)
    \/ \E q \in Quantizations : handleQuantizationChange(q)
    \/ \E b \in BeatsPerMeasureOptions : handleBeatsPerMeasureChange(b)
    \/ \E k \in KeyChoices : handleKeyChange(k)
    \/ handleSnapToggle
    \/ \E midi \in LoadAddMidis, beat \in LoadAddBeats : handleNoteAdd(midi, beat)
    \/ \E noteIndex \in 0..Len(notes) : handleNoteSelect(noteIndex)
    \/ handleDeleteNote
    \/ handleClearAll
    \/ \E d \in InputDurations : handleSelectedNoteDurationChange(d)
    \/ \E s \in Transpositions : handleTranspose(s)
    \/ \E i \in 1..Len(notes), midi \in DraggedMidis : handleNoteChange(i, midi)

SpecLoad == InitLoad /\ [][NextLoad]_vars

(***************************************************************************)
(* Claims about the measures and the loads (checked under SpecLoad)        *)
(***************************************************************************)
\* C8: whenever no analysis or import is in flight, the measures on display
\* are the quantization of the current notes (after the optional snap to key)
\* under the current tempo, minQuantization, key and beats per measure.
C8_MeasuresNeverStale ==
    pending = {} =>
        measures = requantize(notes, tempo, minQuantization, beatsPerMeasure,
                              keySignature, snapToKeyEnabled)

\* C9: once every load request has settled, the result on display (if any) is
\* that of the most recent request: an earlier request's result that arrives
\* after a newer request was made has been discarded.
C9_NewLoadSupersedes ==
    pending = {} => shown \in {0, reqSeq}

(***************************************************************************)
(* harmonizer: diatonic interval harmony with counterpoint rules           *)
(***************************************************************************)
MAJOR_SCALE == <<0, 2, 4, 5, 7, 9, 11>>
MINOR_SCALE == <<0, 2, 3, 5, 7, 8, 10>>
HarmonyKeyNames ==
    {"C", "C#", "Db", "D", "D#", "Eb", "E", "F", "F#", "Gb", "G", "G#", "Ab",
     "A", "A#", "Bb", "B"}
\* the harmonizer's own KEY_ROOTS table
HARMONY_KEY_ROOTS(key) ==
    CASE key = "C" -> 0 [] key \in {"C#", "Db"} -> 1 [] key = "D" -> 2
      [] key \in {"D#", "Eb"} -> 3 [] key = "E" -> 4 [] key = "F" -> 5
      [] key \in {"F#", "Gb"} -> 6 [] key = "G" -> 7 [] key \in {"G#", "Ab"} -> 8
      [] key = "A" -> 9 [] key \in {"A#", "Bb"} -> 10 [] key = "B" -> 11
      [] OTHER -> 0

\* getScaleNotes(key, isMinor): the seven pitch classes, in degree order
getScaleNotes(key, isMinor) ==
    LET scale == IF isMinor THEN MINOR_SCALE ELSE MAJOR_SCALE
    IN  [i \in 1..7 |-> (HARMONY_KEY_ROOTS(key) + scale[i]) % 12]

\* the nearest-degree loop of getScaleDegree; i and the result are 0-based
RECURSIVE NearestDegreeLoop(_, _, _, _, _)
NearestDegreeLoop(noteInOctave, scaleNotes, i, minDist, scaleDegree) ==
    IF i >= Len(scaleNotes) THEN scaleDegree
    ELSE LET dist == Min(Abs(noteInOctave - scaleNotes[i + 1]),
                         12 - Abs(noteInOctave - scaleNotes[i + 1]))
         IN  IF dist < minDist
             THEN NearestDegreeLoop(noteInOctave, scaleNotes, i + 1, dist, i)
             ELSE NearestDegreeLoop(noteInOctave, scaleNotes, i + 1, minDist, scaleDegree)

\* getScaleDegree(midiNote, key, isMinor): 0..6
getScaleDegree(midiNote, key, isMinor) ==
    LET scaleNotes == getScaleNotes(key, isMinor)
        noteInOctave == midiNote % 12
    IN  IF \E i \in 1..7 : scaleNotes[i] = noteInOctave
        THEN (CHOOSE i \in 1..7 : scaleNotes[i] = noteInOctave) - 1
        ELSE NearestDegreeLoop(noteInOctave, scaleNotes, 0, 12, -1)

hasParallelPerfect(prevNote1, currNote1, prevNote2, currNote2) ==
    LET prevInterval == Abs(prevNote1 - prevNote2) % 12
        currInterval == Abs(currNote1 - currNote2) % 12
        prevIsPerfect == prevInterval \in {0, 7, 5}
        currIsPerfect == currInterval \in {0, 7, 5}
        direction1 == Sign(currNote1 - prevNote1)
        direction2 == Sign(currNote2 - prevNote2)
    IN  IF ~prevIsPerfect \/ ~currIsPerfect THEN FALSE
        ELSE IF prevInterval # currInterval THEN FALSE
        ELSE direction1 = direction2 /\ direction1 # 0

RECURSIVE constrainToRange(_, _)
constrainToRange(midi, range) ==
    IF midi < range.min THEN constrainToRange(midi + 12, range)
    ELSE IF midi > range.max THEN constrainToRange(midi - 12, range)
    ELSE midi

\* the score findBestHarmonyNote gives one candidate
CandidateScore(candidate, octaveOffset, melodyNote, targetInterval, prevMelodyNote, prevHarmonyNote) ==
    LET melodyDirection == Sign(melodyNote - prevMelodyNote)
        harmonyDirection == Sign(candidate - prevHarmonyNote)
        harmonyMotion == Abs(candidate - prevHarmonyNote)
    IN  100
        - (IF hasParallelPerfect(prevMelodyNote, melodyNote, prevHarmonyNote, candidate)
           THEN 50 ELSE 0)
        - (IF targetInterval < 0 /\ candidate > melodyNote THEN 40 ELSE 0)
        - (IF targetInterval > 0 /\ candidate < melodyNote THEN 40 ELSE 0)
        + (IF melodyDirection # 0 /\ harmonyDirection # 0
           THEN (IF melodyDirection # harmonyDirection THEN 20 ELSE -10)
           ELSE 0)
        + (IF harmonyMotion <= 2 THEN 15
           ELSE IF harmonyMotion <= 4 THEN 5
           ELSE IF harmonyMotion > 7 THEN -10 ELSE 0)
        + (IF octaveOffset = 0 THEN 10 ELSE 0)

\* findBestHarmonyNote; prevMelodyNote = prevHarmonyNote = -1 models null
findBestHarmonyNote(melodyNote, targetInterval, voiceRange, prevMelodyNote, prevHarmonyNote, key, isMinor) ==
    LET scaleNotes == getScaleNotes(key, isMinor)
        melodyScaleDegree == getScaleDegree(melodyNote, key, isMinor)
        melodyOctave == FloorDiv(melodyNote, 12)
        targetDegree == (melodyScaleDegree + targetInterval) % 7
        octaveShift == FloorDiv(melodyScaleDegree + targetInterval, 7)
        targetNoteInOctave == scaleNotes[targetDegree + 1]
        targetMidi == constrainToRange((melodyOctave + octaveShift) * 12 + targetNoteInOctave,
                                       voiceRange)
        \* the octave offsets whose candidate is inside the range, in loop order
        offsets == SelectSeq(<<-1, 0, 1>>,
                             LAMBDA o : /\ targetMidi + o * 12 >= voiceRange.min
                                        /\ targetMidi + o * 12 <= voiceRange.max)
        score(o) == CandidateScore(targetMidi + o * 12, o, melodyNote, targetInterval,
                                   prevMelodyNote, prevHarmonyNote)
        \* candidates.sort((a, b) => b.score - a.score)[0]: the sort is stable, so
        \* the first candidate of the highest score
        best == CHOOSE k \in 1..Len(offsets) :
                    /\ \A j \in 1..Len(offsets) : score(offsets[j]) <= score(offsets[k])
                    /\ \A j \in 1..(k - 1) : score(offsets[j]) < score(offsets[k])
    IN  IF prevMelodyNote # -1 /\ prevHarmonyNote # -1 /\ Len(offsets) > 0
        THEN targetMidi + offsets[best] * 12
        ELSE targetMidi

\* generateVoiceWithCounterpoint: the first i notes of the result
RECURSIVE VoiceLoop(_, _, _, _, _, _)
VoiceLoop(melody, targetInterval, voiceRange, key, isMinor, i) ==
    IF i = 0 THEN <<>>
    ELSE LET result == VoiceLoop(melody, targetInterval, voiceRange, key, isMinor, i - 1)
             prevMelody == IF i > 1 THEN melody[i - 1].midi ELSE -1
             prevHarmony == IF i > 1 THEN result[i - 1].midi ELSE -1
             harmonyMidi == findBestHarmonyNote(melody[i].midi, targetInterval, voiceRange,
                                                prevMelody, prevHarmony, key, isMinor)
         IN  Append(result, [melody[i] EXCEPT !.midi = harmonyMidi])

generateVoiceWithCounterpoint(melody, targetInterval, voiceRange, key, isMinor) ==
    VoiceLoop(melody, targetInterval, voiceRange, key, isMinor, Len(melody))

\* (mutant) the interval is taken one scale degree lower
generateSimpleHarmonyMutant(melody, interval, key, isMinor) ==
    generateVoiceWithCounterpoint(melody, interval - 1,
                                  IF interval > 0 THEN [min |-> 48, max |-> 96]
                                  ELSE [min |-> 36, max |-> 84],
                                  key, isMinor)

generateSimpleHarmony(melody, interval, key, isMinor) ==
    LET range == IF interval > 0 THEN [min |-> 48, max |-> 96]
                 ELSE [min |-> 36, max |-> 84]
    IN  generateVoiceWithCounterpoint(melody, interval, range, key, isMinor)

(***************************************************************************)
(* harmonizer: four-part (SATB) harmony                                    *)
(***************************************************************************)
VOICE_RANGES ==
    [soprano |-> [min |-> 60, max |-> 84], alto |-> [min |-> 53, max |-> 77],
     tenor |-> [min |-> 48, max |-> 72], bass |-> [min |-> 40, max |-> 64]]

\* getChordTones(scaleDegree, key, isMinor): <<root, third, fifth>>
getChordTones(scaleDegree, key, isMinor) ==
    LET scaleNotes == getScaleNotes(key, isMinor)
    IN  <<scaleNotes[scaleDegree + 1], scaleNotes[((scaleDegree + 2) % 7) + 1],
          scaleNotes[((scaleDegree + 4) % 7) + 1]>>

\* while ((bassNote % 12) !== root) bassNote--
RECURSIVE DownToRoot(_, _)
DownToRoot(bassNote, root) ==
    IF bassNote % 12 = root THEN bassNote ELSE DownToRoot(bassNote - 1, root)

\* for (const alt of alternatives): the first in-range alternative that is not
\* parallel to the tenor, else the bass note unchanged
RECURSIVE BassAlternative(_, _, _, _, _, _)
BassAlternative(alternatives, k, bassNote, prevTenor, tenorNote, prevBass) ==
    IF k > Len(alternatives) THEN bassNote
    ELSE IF /\ alternatives[k] >= VOICE_RANGES.bass.min
            /\ alternatives[k] <= VOICE_RANGES.bass.max
            /\ ~hasParallelPerfect(prevTenor, tenorNote, prevBass, alternatives[k])
         THEN alternatives[k]
         ELSE BassAlternative(alternatives, k + 1, bassNote, prevTenor, tenorNote, prevBass)

\* "ensure the voice doesn't cross" the voice above it: a note above the limit
\* is taken an octave down and constrained to the range
BelowVoice(note, limit, range) ==
    IF note > limit THEN constrainToRange(note - 12, range) ELSE note

\* "check spacing between alto and tenor (should be within octave)"
TenorSpacing(tenorNote, altoNote) ==
    IF altoNote - tenorNote > 12
    THEN constrainToRange(tenorNote + 12, VOICE_RANGES.tenor) ELSE tenorNote

\* "check for parallel fifths/octaves and adjust if needed"; -1 models null
BassWithoutParallels(bassNote, prevTenor, tenorNote, prevBass) ==
    IF /\ prevBass # -1 /\ prevTenor # -1
       /\ hasParallelPerfect(prevTenor, tenorNote, prevBass, bassNote)
    THEN BassAlternative(<<bassNote + 1, bassNote - 1, bassNote + 2, bassNote - 2>>, 1,
                         bassNote, prevTenor, tenorNote, prevBass)
    ELSE bassNote

\* the bass of one iteration, given its tenor
SATBBass(sopranoNote, tenorNote, prevTenor, prevBass, root) ==
    BassWithoutParallels(
        BelowVoice(constrainToRange(DownToRoot(sopranoNote - 12, root), VOICE_RANGES.bass),
                   tenorNote, VOICE_RANGES.bass),
        prevTenor, tenorNote, prevBass)

\* the tenor of one iteration, given its alto
SATBTenor(sopranoNote, altoNote, prevSoprano, prevTenor, key, isMinor) ==
    TenorSpacing(
        BelowVoice(findBestHarmonyNote(sopranoNote, -4, VOICE_RANGES.tenor, prevSoprano,
                                       prevTenor, key, isMinor),
                   altoNote, VOICE_RANGES.tenor),
        altoNote)

\* the alto of one iteration
SATBAlto(sopranoNote, prevSoprano, prevAlto, key, isMinor) ==
    BelowVoice(findBestHarmonyNote(sopranoNote, -2, VOICE_RANGES.alto, prevSoprano,
                                   prevAlto, key, isMinor),
               sopranoNote, VOICE_RANGES.alto)

SATBVoices(sopranoNote, altoNote, tenorNote, prevTenor, prevBass, root) ==
    <<altoNote, tenorNote, SATBBass(sopranoNote, tenorNote, prevTenor, prevBass, root)>>

SATBBelowAlto(sopranoNote, altoNote, prevSoprano, prevTenor, prevBass, key, isMinor) ==
    SATBVoices(sopranoNote, altoNote,
               SATBTenor(sopranoNote, altoNote, prevSoprano, prevTenor, key, isMinor),
               prevTenor, prevBass,
               getChordTones(getScaleDegree(sopranoNote, key, isMinor), key, isMinor)[1])

\* one iteration of generateSATBHarmony's loop: <<altoNote, tenorNote, bassNote>>;
\* a previous note of -1 models null
SATBStep(sopranoNote, prevSoprano, prevAlto, prevTenor, prevBass, key, isMinor) ==
    SATBBelowAlto(sopranoNote, SATBAlto(sopranoNote, prevSoprano, prevAlto, key, isMinor),
                  prevSoprano, prevTenor, prevBass, key, isMinor)

\* the loop of generateSATBHarmony: [alto, tenor, bass] after the first i notes
RECURSIVE SATBLoop(_, _, _, _)
SATBLoop(melody, key, isMinor, i) ==
    IF i = 0 THEN [alto |-> <<>>, tenor |-> <<>>, bass |-> <<>>]
    ELSE LET st == SATBLoop(melody, key, isMinor, i - 1)
             step == SATBStep(melody[i].midi,
                              IF i > 1 THEN melody[i - 1].midi ELSE -1,
                              IF i > 1 THEN st.alto[i - 1].midi ELSE -1,
                              IF i > 1 THEN st.tenor[i - 1].midi ELSE -1,
                              IF i > 1 THEN st.bass[i - 1].midi ELSE -1,
                              key, isMinor)
         IN  [alto |-> Append(st.alto, [melody[i] EXCEPT !.midi = step[1]]),
              tenor |-> Append(st.tenor, [melody[i] EXCEPT !.midi = step[2]]),
              bass |-> Append(st.bass, [melody[i] EXCEPT !.midi = step[3]])]

generateSATBHarmony(melody, key, isMinor) ==
    LET st == SATBLoop(melody, key, isMinor, Len(melody))
    IN  <<[name |-> "Alto", notes |-> st.alto], [name |-> "Tenor", notes |-> st.tenor],
          [name |-> "Bass", notes |-> st.bass]>>

\* generateVoiceByChromatic(melody, semitones)
generateVoiceByChromatic(melody, semitones) ==
    [i \in 1..Len(melody) |-> [melody[i] EXCEPT !.midi = melody[i].midi + semitones]]

(***************************************************************************)
(* harmonizer: chord-based harmony.  A chord here carries root, triad,     *)
(* startBeat and durationBeats, and optionally seventh and bassNote; the   *)
(* extensions and alterations of getChordIntervals are not drawn.          *)
(***************************************************************************)
SEVENTH_INTERVALS(seventh) ==
    CASE seventh = "major7" -> 11 [] seventh = "minor7" -> 10
      [] seventh = "dominant7" -> 10 [] seventh = "diminished7" -> 9

\* an ascending sequence of the members of a finite set of numbers
RECURSIVE SortedSeqOf(_)
SortedSeqOf(S) ==
    IF S = {} THEN <<>>
    ELSE LET least == CHOOSE x \in S : \A y \in S : x <= y
         IN  <<least>> \o SortedSeqOf(S \ {least})

\* getChordIntervals(chord): Array.from(intervals).sort((a, b) => a - b)
getChordIntervals(chord) ==
    SortedSeqOf(TRIAD_INTERVALS(chord.triad)
                  \cup (IF "seventh" \in DOMAIN chord
                        THEN {SEVENTH_INTERVALS(chord.seventh)} ELSE {}))

\* getChordAtTime(chords, time, tempo): the index of the first chord sounding
\* at the time, 0 for null
getChordAtTime(chordList, time, bpm) ==
    LET hits == {k \in 1..Len(chordList) :
                    /\ time * bpm >= chordList[k].startBeat * TicksPerMinute
                    /\ time * bpm < (chordList[k].startBeat + chordList[k].durationBeats)
                                       * TicksPerMinute}
    IN  IF hits = {} THEN 0 ELSE CHOOSE k \in hits : \A j \in hits : k <= j

\* the harmonizer's getChordMidiNotes(chord, baseOctave); its rootMap is the
\* harmonizer's key table
getChordMidiNotes(chord, baseOctave) ==
    LET baseMidi == 12 + baseOctave * 12 + HARMONY_KEY_ROOTS(chord.root)
        intervals == getChordIntervals(chord)
    IN  [k \in 1..Len(intervals) |-> baseMidi + intervals[k]]

\* the score findBestChordTone gives one chord note
ChordToneScore(chordNote, melodyMidi, preferBelow) ==
    LET distance == Abs(chordNote - melodyMidi)
    IN  (IF preferBelow /\ chordNote < melodyMidi THEN 50
         ELSE IF ~preferBelow /\ chordNote > melodyMidi THEN 50 ELSE 0)
        + (IF distance >= 3 /\ distance <= 7 THEN 30
           ELSE IF distance >= 8 /\ distance <= 12 THEN 20
           ELSE IF distance < 3 THEN -20 ELSE 0)
        - (IF distance = 0 THEN 100 ELSE 0)

\* the chord notes in octaves -2..2 that lie in the range, in loop order
RECURSIVE ExpandChordNotes(_, _, _, _)
ExpandChordNotes(chordMidiNotes, targetRange, k, octave) ==
    IF k > Len(chordMidiNotes) THEN <<>>
    ELSE IF octave > 2 THEN ExpandChordNotes(chordMidiNotes, targetRange, k + 1, -2)
    ELSE LET expanded == chordMidiNotes[k] + octave * 12
             rest == ExpandChordNotes(chordMidiNotes, targetRange, k, octave + 1)
         IN  IF expanded >= targetRange.min /\ expanded <= targetRange.max
             THEN <<expanded>> \o rest ELSE rest

findBestChordTone(melodyMidi, chordMidiNotes, targetRange, preferBelow) ==
    LET expandedChordNotes == ExpandChordNotes(chordMidiNotes, targetRange, 1, -2)
        score(k) == ChordToneScore(expandedChordNotes[k], melodyMidi, preferBelow)
        \* the first note of the highest score (the loop replaces on > only)
        best == CHOOSE k \in 1..Len(expandedChordNotes) :
                    /\ \A j \in 1..Len(expandedChordNotes) : score(j) <= score(k)
                    /\ \A j \in 1..(k - 1) : score(j) < score(k)
    IN  IF Len(expandedChordNotes) = 0
        THEN (IF preferBelow THEN melodyMidi - 4 ELSE melodyMidi + 4)
        ELSE expandedChordNotes[best]

\* one note of generateChordBasedHarmony: <<voice2Midi, voice3Midi>>
ChordHarmonyStep(note, chordList, bpm) ==
    LET c == getChordAtTime(chordList, note.startTime, bpm)
        chordNotes == getChordMidiNotes(chordList[c], 3)
        voice2Midi == findBestChordTone(note.midi, chordNotes,
                                        [min |-> 48, max |-> note.midi - 2], TRUE)
        voice3Midi == findBestChordTone(note.midi, chordNotes,
                                        [min |-> 36, max |-> voice2Midi - 2], TRUE)
    IN  IF c = 0 THEN <<note.midi - 4, note.midi - 7>> ELSE <<voice2Midi, voice3Midi>>

generateChordBasedHarmony(melody, chordList, bpm) ==
    IF Len(chordList) = 0 THEN <<>>
    ELSE <<[name |-> "Harmony (Alto)",
            notes |-> [i \in 1..Len(melody) |->
                         [melody[i] EXCEPT !.midi = ChordHarmonyStep(melody[i], chordList, bpm)[1]]]],
           [name |-> "Harmony (Tenor)",
            notes |-> [i \in 1..Len(melody) |->
                         [melody[i] EXCEPT !.midi = ChordHarmonyStep(melody[i], chordList, bpm)[2]]]]>>

\* one note of generateChordBasedSATB: <<altoMidi, tenorMidi, bassMidi>>
ChordSATBStep(note, chordList, bpm) ==
    LET c == getChordAtTime(chordList, note.startTime, bpm)
        chord == chordList[c]
        chordNotes == getChordMidiNotes(chord, 3)
        altoMidi == findBestChordTone(note.midi, chordNotes, VOICE_RANGES.alto, TRUE)
        tenorMidi == findBestChordTone(altoMidi, chordNotes, VOICE_RANGES.tenor, TRUE)
        rootSemitone == HARMONY_KEY_ROOTS(IF "bassNote" \in DOMAIN chord
                                          THEN chord.bassNote ELSE chord.root)
        bassMidi == constrainToRange(36 + rootSemitone, VOICE_RANGES.bass)
    IN  IF c = 0 THEN <<note.midi - 4, note.midi - 9, note.midi - 16>>
        ELSE <<altoMidi, tenorMidi, bassMidi>>

generateChordBasedSATB(melody, chordList, bpm) ==
    IF Len(chordList) = 0 THEN <<>>
    ELSE LET voice(k) == [i \in 1..Len(melody) |->
                            [melody[i] EXCEPT !.midi = ChordSATBStep(melody[i], chordList, bpm)[k]]]
         IN  <<[name |-> "Alto", notes |-> voice(1)], [name |-> "Tenor", notes |-> voice(2)],
               [name |-> "Bass", notes |-> voice(3)]>>

\* the styles that harmonize by a diatonic interval alone
SimpleStyles == {"thirds-above", "thirds-below", "sixths-above", "sixths-below"}
HarmonyStyles ==
    SimpleStyles \cup {"power-fifths", "triads", "four-part", "octave-double",
                       "parallel-thirds-sixths", "chord-tones", "chord-based-satb"}
\* generateHarmony(melody, style, key, isMinor, chords, tempo): result.voices
generateHarmony(melody, style, key, isMinor, chordList, bpm) ==
    CASE style = "chord-tones" -> generateChordBasedHarmony(melody, chordList, bpm)
      [] style = "chord-based-satb" -> generateChordBasedSATB(melody, chordList, bpm)
      [] style = "thirds-above" ->
            <<[name |-> "Voice 2 - Upper Third",
               notes |-> generateSimpleHarmony(melody, 2, key, isMinor)]>>
      [] style = "thirds-below" ->
            <<[name |-> "Voice 2 - Lower Third",
               notes |-> generateSimpleHarmony(melody, -2, key, isMinor)]>>
      [] style = "sixths-above" ->
            <<[name |-> "Voice 2 - Upper Sixth",
               notes |-> generateSimpleHarmony(melody, 5, key, isMinor)]>>
      [] style = "sixths-below" ->
            <<[name |-> "Voice 2 - Lower Sixth",
               notes |-> generateSimpleHarmony(melody, -5, key, isMinor)]>>
      [] style = "power-fifths" ->
            <<[name |-> "Voice 2 - Power Fifth",
               notes |-> generateVoiceByChromatic(melody, 7)]>>
      [] style = "triads" ->
            <<[name |-> "Voice 2 - Third",
               notes |-> generateSimpleHarmony(melody, 2, key, isMinor)],
              [name |-> "Voice 3 - Fifth",
               notes |-> generateSimpleHarmony(melody, 4, key, isMinor)]>>
      [] style = "four-part" -> generateSATBHarmony(melody, key, isMinor)
      [] style = "octave-double" ->
            <<[name |-> "Voice 2 - Octave Up",
               notes |-> generateVoiceByChromatic(melody, 12)],
              [name |-> "Voice 3 - Octave Down",
               notes |-> generateVoiceByChromatic(melody, -12)]>>
      [] style = "parallel-thirds-sixths" ->
            <<[name |-> "Voice 2 - Upper Third",
               notes |-> generateSimpleHarmony(melody, 2, key, isMinor)],
              [name |-> "Voice 3 - Lower Sixth",
               notes |-> generateSimpleHarmony(melody, -5, key, isMinor)]>>
      [] OTHER -> <<>>

(***************************************************************************)
(* The harmonizer as a pure function: Init draws a key, a mode, a style    *)
(* and a melody that moves by scale step; the action applies               *)
(* generateHarmony.                                                        *)
(***************************************************************************)
MaxMelodyLen == 5

MelodyStarts == 40..90
MelodyDirections == {1, -1}

\* the next note of the scale above (dir = 1) or below (dir = -1) a scale note
NextScaleNote(midi, key, isMinor, dir) ==
    LET scale == {getScaleNotes(key, isMinor)[i] : i \in 1..7}
    IN  IF (midi + dir) % 12 \in scale THEN midi + dir ELSE midi + 2 * dir

RECURSIVE StepwiseMidis(_, _, _, _, _)
StepwiseMidis(start, len, key, isMinor, dir) ==
    IF len = 1 THEN <<start>>
    ELSE LET prefix == StepwiseMidis(start, len - 1, key, isMinor, dir)
         IN  Append(prefix, NextScaleNote(prefix[len - 1], key, isMinor, dir))

\* a melody of quarter notes at 120 BPM on the given pitches
MelodyOf(midis) ==
    [i \in 1..Len(midis) |->
        [midi |-> midis[i], startTime |-> (i - 1) * 420, duration |-> 420,
         velocity |-> 80]]

HarmonyArgs ==
    {[kind |-> "harmony", style |-> style, key |-> key, isMinor |-> isMinor,
      chords |-> <<>>, tempo |-> 120,
      melody |-> MelodyOf(StepwiseMidis(start, len, key, isMinor, dir))] :
        <<style, key, isMinor, start, len, dir>> \in
            {t \in SimpleStyles \X HarmonyKeyNames \X BOOLEAN \X MelodyStarts
                   \X (3..MaxMelodyLen) \X MelodyDirections :
                t[4] % 12 \in {getScaleNotes(t[2], t[3])[i] : i \in 1..7}}}

InitHarm ==
    /\ PageInit
    /\ fn = "idle"
    /\ res = <<>>
    /\ arg \in HarmonyArgs

ApplyHarmony ==
    /\ fn = "idle"
    /\ arg.kind = "harmony"
    /\ fn' = "generateHarmony"
    /\ res' = generateHarmony(arg.melody, arg.style, arg.key, arg.isMinor, arg.chords,
                            arg.tempo)
    /\ UNCHANGED <<arg, pageVars, events>>

NextHarm == ApplyHarmony

SpecHarm == InitHarm /\ [][NextHarm]_vars

(***************************************************************************)
(* Claims about the harmonizer (checked under SpecHarm)                    *)
(***************************************************************************)
\* the pitch classes of a diatonic key: major, or natural minor
DiatonicPitchClasses(key, isMinor) ==
    {(HARMONY_KEY_ROOTS(key) + s) % 12 :
        s \in IF isMinor THEN {0, 2, 3, 5, 7, 8, 10} ELSE {0, 2, 4, 5, 7, 9, 11}}
\* every note is in the key and each next note is the next note of the key above
AscendsByScaleStep(melody, key, isMinor) ==
    /\ \A i \in 1..Len(melody) : melody[i].midi % 12 \in DiatonicPitchClasses(key, isMinor)
    /\ \A i \in 1..(Len(melody) - 1) :
          /\ melody[i + 1].midi > melody[i].midi
          /\ \A m \in (melody[i].midi + 1)..(melody[i + 1].midi - 1) :
                m % 12 \notin DiatonicPitchClasses(key, isMinor)
Harmonized == fn = "generateHarmony"

\* C10: for a melody of at least 3 notes that ascends by scale step in its key,
\* the voice of the 'thirds-below' style never forms parallel perfect intervals
\* with the melody between two consecutive notes, as hasParallelPerfect judges.
C10_ThirdsBelowNoParallelPerfect ==
    (/\ Harmonized
     /\ arg.style = "thirds-below"
     /\ Len(arg.melody) >= 3
     /\ AscendsByScaleStep(arg.melody, arg.key, arg.isMinor))
    => /\ Len(res) = 1
       /\ Len(res[1].notes) = Len(arg.melody)
       /\ \A i \in 2..Len(arg.melody) :
             ~hasParallelPerfect(arg.melody[i - 1].midi, arg.melody[i].midi,
                                 res[1].notes[i - 1].midi, res[1].notes[i].midi)
\* C10 witness: a harmonized ascending minor-key melody of 4 notes whose
\* thirds-below voice moves up with it
C10_Witness ==
    /\ Harmonized
    /\ arg.style = "thirds-below"
    /\ arg.isMinor
    /\ Len(arg.melody) = 4
    /\ AscendsByScaleStep(arg.melody, arg.key, arg.isMinor)
    /\ \E i \in 2..4 : res[1].notes[i].midi > res[1].notes[i - 1].midi

(***************************************************************************)
(* Four-part harmony as a pure function: Init draws a key, a mode and a    *)
(* melody in the soprano band; the action applies generateHarmony.         *)
(***************************************************************************)
MaxSatbLen == 2

SopranoBand == 60..84
RECURSIVE MidiLists(_, _)
MidiLists(pitches, n) ==
    IF n = 0 THEN {<<>>}
    ELSE LET S == MidiLists(pitches, n - 1)
         IN  S \cup {Append(l, p) : <<l, p>> \in {t \in S \X pitches : Len(t[1]) = n - 1}}
SatbArgs ==
    {[kind |-> "harmony", style |-> "four-part", key |-> key, isMinor |-> isMinor,
      chords |-> <<>>, tempo |-> 120, melody |-> MelodyOf(midis)] :
        <<key, isMinor, midis>> \in
            HarmonyKeyNames \X BOOLEAN \X (MidiLists(SopranoBand, MaxSatbLen) \ {<<>>})}

InitSatb ==
    /\ PageInit
    /\ fn = "idle"
    /\ res = <<>>
    /\ arg \in SatbArgs

SpecSatb == InitSatb /\ [][NextHarm]_vars

\* C11: in 'four-part' output for a melody inside the soprano band 60..84, at
\* every position the alto is not above the soprano and lies in 53..77, the
\* tenor is not above the alto, is within 12 semitones of it and lies in
\* 48..72, and the bass lies in 40..64.
C11_SatbRangesAndSpacing ==
    (/\ Harmonized
     /\ arg.style = "four-part"
     /\ \A i \in 1..Len(arg.melody) : arg.melody[i].midi \in 60..84)
    => /\ Len(res) = 3
       /\ \A i \in 1..Len(arg.melody) :
             LET soprano == arg.melody[i].midi
                 alto == res[1].notes[i].midi
                 tenor == res[2].notes[i].midi
                 bass == res[3].notes[i].midi
             IN  /\ alto <= soprano /\ alto \in 53..77
                 /\ tenor <= alto /\ alto - tenor <= 12 /\ tenor \in 48..72
                 /\ bass \in 40..64


(***************************************************************************)
(* Playback combination.  Arrays are kept in a heap keyed by identity, so  *)
(* that push and sort act on the array they are called on: "melody" is the *)
(* caller's array, "allNotes" the one combineVoicesForPlayback allocates.  *)
(* Note objects are never assigned to, so a note is a value.               *)
(***************************************************************************)
\* Array.prototype.push(...items) on the array with the given identity
push(heap, id, items) == [heap EXCEPT ![id] = @ \o items]

\* Array.prototype.sort((a, b) => a.startTime - b.startTime), in place, stable
sortInPlace(heap, id) == [heap EXCEPT ![id] = SortByStartTime(@)]

\* for (const voice of voices) allNotes.push(...voice.notes)
RECURSIVE PushVoices(_, _, _, _)
PushVoices(heap, id, voices, v) ==
    IF v > Len(voices) THEN heap
    ELSE PushVoices(push(heap, id, voices[v].notes), id, voices, v + 1)

\* a combination that accumulates into the array it was given
combineVoicesForPlaybackMutant(heap, melody, voices, includeMelody) ==
    LET allNotes == melody
        h1 == IF includeMelody THEN push(heap, allNotes, heap[melody]) ELSE heap
        h2 == PushVoices(h1, allNotes, voices, 1)
    IN  [heap |-> sortInPlace(h2, allNotes), ret |-> allNotes]

\* combineVoicesForPlayback(melody, voices, includeMelody): the heap after the
\* call and the identity of the array returned
combineVoicesForPlayback(heap, melody, voices, includeMelody) ==
    LET allNotes == "allNotes"
        h0 == [heap EXCEPT ![allNotes] = <<>>]
        h1 == IF includeMelody THEN push(h0, allNotes, h0[melody]) ELSE h0
        h2 == PushVoices(h1, allNotes, voices, 1)
    IN  [heap |-> sortInPlace(h2, allNotes), ret |-> allNotes]

MaxPlayLen == 2
PlayMidis == {60, 64, 67}
PlayKeys == {"C", "G"}
PlayChordLists ==
    {<<>>, <<[root |-> "C", triad |-> "major", startBeat |-> 0, durationBeats |-> 4]>>}

PlayArgs ==
    {[kind |-> "harmony", style |-> style, key |-> key, isMinor |-> isMinor,
      chords |-> chordList, tempo |-> 120, includeMelody |-> includeMelody,
      melody |-> MelodyOf(midis)] :
        <<style, key, isMinor, chordList, includeMelody, midis>> \in
            HarmonyStyles \X PlayKeys \X BOOLEAN \X PlayChordLists \X BOOLEAN
                \X (MidiLists(PlayMidis, MaxPlayLen) \ {<<>>})}

InitPlay ==
    /\ PageInit
    /\ fn = "idle"
    /\ res = <<>>
    /\ arg \in PlayArgs

\* the page's playbackNotes: the voices generateHarmony returned are combined
\* with the melody they were generated from
ApplyCombine ==
    /\ fn = "generateHarmony"
    /\ "includeMelody" \in DOMAIN arg
    /\ fn' = "combineVoicesForPlayback"
    /\ res' = [voices |-> res,
               call |-> combineVoicesForPlayback(
                            [melody |-> arg.melody, allNotes |-> <<>>], "melody", res,
                            arg.includeMelody)]
    /\ UNCHANGED <<arg, pageVars, events>>

NextPlay == ApplyHarmony \/ ApplyCombine

SpecPlay == InitPlay /\ [][NextPlay]_vars

Combined == fn = "combineVoicesForPlayback"

RECURSIVE AllVoiceNotes(_, _)
AllVoiceNotes(voices, v) ==
    IF v > Len(voices) THEN <<>> ELSE voices[v].notes \o AllVoiceNotes(voices, v + 1)

\* the two lists hold the same notes the same number of times
SameNotes(s, t) ==
    /\ Len(s) = Len(t)
    /\ \A i \in 1..Len(s) :
          Cardinality({j \in 1..Len(s) : s[j] = s[i]})
              = Cardinality({j \in 1..Len(t) : t[j] = s[i]})

NonDecreasingStartTime(list) ==
    \A i \in 1..(Len(list) - 1) : list[i].startTime <= list[i + 1].startTime

\* C12: after generateHarmony and combineVoicesForPlayback have returned, the
\* melody array holds the same notes in the same order with the same fields,
\* the combined list is another array, it holds exactly the melody notes (when
\* included) and all the voice notes, and its start times never decrease.
C12_MelodyNotMutated ==
    Combined =>
        /\ res.call.heap["melody"] = arg.melody
        /\ res.call.ret # "melody"
        /\ SameNotes(res.call.heap[res.call.ret],
                     (IF arg.includeMelody THEN arg.melody ELSE <<>>)
                         \o AllVoiceNotes(res.voices, 1))
        /\ NonDecreasingStartTime(res.call.heap[res.call.ret])
\* C12 witness: a two-note melody combined with its three four-part voices,
\* where the notes as pushed were out of start-time order
C12_Witness ==
    /\ Combined
    /\ arg.includeMelody
    /\ arg.style = "four-part"
    /\ Len(arg.melody) = 2
    /\ Len(res.call.heap[res.call.ret]) = 8
    /\ ~NonDecreasingStartTime(arg.melody \o AllVoiceNotes(res.voices, 1))


(***************************************************************************)
(* Chord suggestion as a pure function: Init draws a melody sorted by      *)
(* start time (as the page keeps it), a key, a mode, a measure length and  *)
(* a tempo; the action applies suggestChords.                              *)
(***************************************************************************)
MaxSuggestNotes == 2
SuggestMidis == {60, 61, 64, 67}
SuggestStartBeats == {0, 1, 5}
SuggestDurationBeats == {1, 4}
SuggestKeys == {"C", "A"}
SuggestMeasures == {3, 4}
SuggestTempos == {60, 120}
\* no note drawn reaches beyond this window index
SuggestWindowLimit == 4
SetMax(S) == CHOOSE x \in S : \A y \in S : y <= x

SuggestNotes(bpm) ==
    {[midi |-> midi, startTime |-> BeatTicks(beat, bpm),
      duration |-> BeatTicks(dur, bpm), velocity |-> 80] :
        <<midi, beat, dur>> \in SuggestMidis \X SuggestStartBeats \X SuggestDurationBeats}

RECURSIVE SuggestMelodies(_, _)
SuggestMelodies(bpm, n) ==
    IF n = 0 THEN {<<>>}
    ELSE LET S == SuggestMelodies(bpm, n - 1)
         IN  S \cup {Append(t[1], t[2]) :
                        t \in {u \in S \X SuggestNotes(bpm) :
                                  /\ Len(u[1]) = n - 1
                                  /\ \/ Len(u[1]) = 0
                                     \/ u[1][Len(u[1])].startTime <= u[2].startTime}}

SuggestArgs ==
    {[kind |-> "suggest", melody |-> t[5], key |-> t[1], isMinor |-> t[2],
      beats |-> t[3], tempo |-> t[4]] :
        t \in UNION {{<<key, isMinor, beats, bpm, melody>> :
                        <<key, isMinor, beats, melody>> \in
                            SuggestKeys \X BOOLEAN \X SuggestMeasures
                                \X SuggestMelodies(bpm, MaxSuggestNotes)} :
                     bpm \in SuggestTempos}}

InitSuggest ==
    /\ PageInit
    /\ fn = "idle"
    /\ res = <<>>
    /\ arg \in SuggestArgs

ApplySuggest ==
    /\ fn = "idle"
    /\ arg.kind = "suggest"
    /\ fn' = "suggestChords"
    /\ res' = suggestChords(arg.melody, arg.key, arg.isMinor, arg.beats, arg.tempo)
    /\ UNCHANGED <<arg, pageVars, events>>

NextSuggest == ApplySuggest

SpecSuggest == InitSuggest /\ [][NextSuggest]_vars

Suggested == fn = "suggestChords"

\* the notes of the melody that overlap window k (beats k*beats .. (k+1)*beats)
NotesInWindow(melody, k, beats, bpm) ==
    {i \in 1..Len(melody) :
        /\ melody[i].startTime * bpm < (k + 1) * beats * TicksPerMinute
        /\ (melody[i].startTime + melody[i].duration) * bpm > k * beats * TicksPerMinute}

\* the windows any note of the melody reaches
WindowsOf(melody, beats, bpm) ==
    {k \in 0..(SuggestWindowLimit) : NotesInWindow(melody, k, beats, bpm) # {}}
        \cup {k \in 0..(SuggestWindowLimit) : \E c \in 1..Len(res) : res[c].startBeat = k * beats}
        \cup {0}

\* the best doubled score of the seven scale-degree triads in window k
MaxTriadScore2(melody, k, key, isMinor, beats, bpm) ==
    LET pcs == {melody[i].midi % 12 : i \in NotesInWindow(melody, k, beats, bpm)}
        scaleChords == IF isMinor THEN MINOR_SCALE_CHORDS ELSE MAJOR_SCALE_CHORDS
    IN  SetMax({ChordScore2(scaleChords[d], NOTE_TO_SEMITONE(key), pcs) : d \in 1..7})

\* C13: suggestChords emits at most one chord per measure-length window, at
\* startBeat k * beatsPerMeasure; a window no note overlaps gets no chord; a
\* window some note overlaps gets a chord iff the best triad score is above
\* 0, and the chord emitted is a plain triad of the scale that attains it.
C13_OneBestTriadPerWindow ==
    Suggested =>
        LET melody == arg.melody
            beats == arg.beats
            bpm == arg.tempo
            scaleChords == IF arg.isMinor THEN MINOR_SCALE_CHORDS ELSE MAJOR_SCALE_CHORDS
            At(k) == {c \in 1..Len(res) : res[c].startBeat = k * beats}
        IN  /\ \A c \in 1..Len(res) : res[c].startBeat % beats = 0
            /\ \A k \in WindowsOf(melody, beats, bpm) :
                  /\ Cardinality(At(k)) <= 1
                  /\ NotesInWindow(melody, k, beats, bpm) = {} => At(k) = {}
                  /\ NotesInWindow(melody, k, beats, bpm) # {} =>
                        /\ At(k) # {}
                              <=> MaxTriadScore2(melody, k, arg.key, arg.isMinor, beats, bpm) > 0
                        /\ \A c \in At(k) :
                              /\ DOMAIN res[c] = {"root", "triad", "startBeat", "durationBeats"}
                              /\ \E d \in 1..7 :
                                    /\ res[c].triad = scaleChords[d].triad
                                    /\ res[c].root = SEMITONE_TO_NOTE_SHARP[
                                          ((NOTE_TO_SEMITONE(arg.key) + scaleChords[d].degree) % 12) + 1]
                                    /\ ChordScore2(scaleChords[d], NOTE_TO_SEMITONE(arg.key),
                                          {melody[i].midi % 12 :
                                              i \in NotesInWindow(melody, k, beats, bpm)})
                                         = MaxTriadScore2(melody, k, arg.key, arg.isMinor, beats, bpm)


(***************************************************************************)
(* noteSegmenter: mergeConsecutiveNotes and filterShortNotes.  Times are   *)
(* whole ticks, so sums and differences of times are exact.                *)
(***************************************************************************)
\* for (let i = 1; i < notes.length; i++): the loop of mergeConsecutiveNotes
RECURSIVE MergeLoop(_, _, _, _, _)
MergeLoop(noteList, maxGap, i, current, result) ==
    IF i > Len(noteList) THEN Append(result, current)
    ELSE LET next == noteList[i]
             gap == next.startTime - (current.startTime + current.duration)
         IN  IF next.midi = current.midi /\ gap < maxGap
             THEN MergeLoop(noteList, maxGap, i + 1,
                      [current EXCEPT
                          !.duration = (next.startTime + next.duration) - current.startTime,
                          !.velocity = RoundDiv(current.velocity + next.velocity, 2)],
                      result)
             ELSE MergeLoop(noteList, maxGap, i + 1, next, Append(result, current))

\* a merge loop in which a note absorbs at most one follower
RECURSIVE MergePairsLoop(_, _, _, _, _, _)
MergePairsLoop(noteList, maxGap, i, current, absorbed, result) ==
    IF i > Len(noteList) THEN Append(result, current)
    ELSE LET next == noteList[i]
             gap == next.startTime - (current.startTime + current.duration)
         IN  IF ~absorbed /\ next.midi = current.midi /\ gap < maxGap
             THEN MergePairsLoop(noteList, maxGap, i + 1,
                      [current EXCEPT
                          !.duration = (next.startTime + next.duration) - current.startTime,
                          !.velocity = RoundDiv(current.velocity + next.velocity, 2)],
                      TRUE, result)
             ELSE MergePairsLoop(noteList, maxGap, i + 1, next, FALSE,
                                 Append(result, current))

\* (mutant) merges pairs only
mergeConsecutiveNotesMutant(noteList, maxGap) ==
    IF Len(noteList) <= 1 THEN noteList
    ELSE MergePairsLoop(noteList, maxGap, 2, noteList[1], FALSE, <<>>)

mergeConsecutiveNotes(noteList, maxGap) ==
    IF Len(noteList) <= 1 THEN noteList
    ELSE MergeLoop(noteList, maxGap, 2, noteList[1], <<>>)

\* notes.filter(note => note.duration >= minDuration)
RECURSIVE filterShortNotes(_, _)
filterShortNotes(noteList, minDuration) ==
    IF Len(noteList) = 0 THEN <<>>
    ELSE (IF noteList[1].duration >= minDuration THEN <<noteList[1]>> ELSE <<>>)
             \o filterShortNotes(Tail(noteList), minDuration)

MergeThenFilter(noteList, maxGap) ==
    filterShortNotes(mergeConsecutiveNotes(noteList, maxGap), 0)

MaxMergeNotes == 3
MergeMidis == {60, 62}
MergeStarts == 0..2
MergeDurations == {1, 3}
MergeVelocities == {60, 100}
MergeGaps == {0, 1, 2}

MergeNoteValues ==
    {[midi |-> t[1], startTime |-> t[2], duration |-> t[3], velocity |-> t[4]] :
        t \in MergeMidis \X MergeStarts \X MergeDurations \X MergeVelocities}

\* the lists of at most n notes ordered by start time
RECURSIVE MergeLists(_)
MergeLists(n) ==
    IF n = 0 THEN {<<>>}
    ELSE LET S == MergeLists(n - 1)
         IN  S \cup {Append(t[1], t[2]) :
                        t \in {u \in S \X MergeNoteValues :
                                  /\ Len(u[1]) = n - 1
                                  /\ \/ Len(u[1]) = 0
                                     \/ u[1][Len(u[1])].startTime <= u[2].startTime}}

MergeArgs ==
    {[kind |-> "merge", notes |-> t[1], maxGap |-> t[2]] :
        t \in MergeLists(MaxMergeNotes) \X MergeGaps}

InitMerge ==
    /\ PageInit
    /\ fn = "idle"
    /\ res = <<>>
    /\ arg \in MergeArgs

ApplyMergeOnce ==
    /\ fn = "idle"
    /\ arg.kind = "merge"
    /\ fn' = "mergeOnce"
    /\ res' = [once |-> MergeThenFilter(arg.notes, arg.maxGap)]
    /\ UNCHANGED <<arg, pageVars, events>>

ApplyMergeAgain ==
    /\ fn = "mergeOnce"
    /\ fn' = "mergeTwice"
    /\ res' = [once |-> res.once, twice |-> MergeThenFilter(res.once, arg.maxGap)]
    /\ UNCHANGED <<arg, pageVars, events>>

NextMerge == ApplyMergeOnce \/ ApplyMergeAgain

SpecMerge == InitMerge /\ [][NextMerge]_vars

\* C14: for a note list ordered by start time with positive durations,
\* merging and filtering (minimum 0) the output of merging and filtering
\* returns that output unchanged.
C14_MergeIdempotent ==
    fn = "mergeTwice" => res.twice = res.once
\* C14 witness: the first pass merged three notes into fewer and left two
\* notes of the same pitch next to each other; the second pass has run
C14_Witness ==
    /\ fn = "mergeTwice"
    /\ Len(arg.notes) = 3
    /\ Len(res.once) = 2
    /\ res.once[1].midi = res.once[2].midi
    /\ res.once[1].velocity = 80


(***************************************************************************)
(* noteSegmenter: segmentNotes and splitAtPitchChanges.  Times are whole   *)
(* milliseconds; a contour is the sequence of its frames' rounded MIDI     *)
(* values (0 for a frame without pitch), frame f (from 0) at f * HopMs.    *)
(***************************************************************************)
\* pitchContour.hopSize / pitchContour.sampleRate, e.g. 2205 / 44100
HopMs == 50
\* the 0.05 s written into splitAtPitchChanges
SplitMinMs == 50
minStableFrames == 3

\* getSegmentPitch(contour, startTime, endTime): the most frequent MIDI value
\* of the pitched frames in [startTime, endTime), 0 for null; of several most
\* frequent values the one met first
getSegmentPitch(frames, startTime, endTime) ==
    LET inRange == {f \in 0..(Len(frames) - 1) :
                       /\ f * HopMs >= startTime /\ f * HopMs < endTime
                       /\ frames[f + 1] > 0}
        Count(v) == Cardinality({f \in inRange : frames[f + 1] = v})
        modes == {f \in inRange : \A g \in inRange : Count(frames[g + 1]) <= Count(frames[f + 1])}
    IN  IF inRange = {} THEN 0
        ELSE frames[(CHOOSE f \in modes : \A g \in modes : f <= g) + 1]

\* the loop of findPitchChanges from frame i on
RECURSIVE PitchChangeLoop(_, _, _, _, _)
PitchChangeLoop(frames, endFrame, i, prevMidi, stableCount) ==
    IF ~(i < endFrame /\ i < Len(frames)) THEN <<>>
    ELSE LET midi == frames[i + 1]
         IN  IF midi <= 0
             THEN PitchChangeLoop(frames, endFrame, i + 1, prevMidi, stableCount)
             ELSE IF prevMidi = -1
             THEN PitchChangeLoop(frames, endFrame, i + 1, midi, 1)
             ELSE IF Abs(midi - prevMidi) > 1
             THEN (IF stableCount >= minStableFrames THEN <<i>> ELSE <<>>)
                      \o PitchChangeLoop(frames, endFrame, i + 1, midi, 1)
             ELSE PitchChangeLoop(frames, endFrame, i + 1, prevMidi, stableCount + 1)

findPitchChanges(frames, startFrame, endFrame) ==
    PitchChangeLoop(frames, endFrame, startFrame, -1, 0)

\* the sub-segment currentStart..stop of a note, kept if it lasts 0.05 s and
\* has a pitch
SubSegment(frames, note, currentStart, stop) ==
    LET midi == getSegmentPitch(frames, currentStart, stop)
    IN  IF stop - currentStart >= SplitMinMs /\ midi > 0
        THEN <<[midi |-> midi, startTime |-> currentStart,
                duration |-> stop - currentStart, velocity |-> note.velocity]>>
        ELSE <<>>

\* for (const changeFrame of pitchChangeFrames), then the final segment
RECURSIVE SplitLoop(_, _, _, _, _)
SplitLoop(frames, note, changes, c, currentStart) ==
    IF c > Len(changes)
    THEN SubSegment(frames, note, currentStart, note.startTime + note.duration)
    ELSE LET changeTime == changes[c] * HopMs
         IN  SubSegment(frames, note, currentStart, changeTime)
                 \o SplitLoop(frames, note, changes, c + 1, changeTime)

RECURSIVE splitAtPitchChanges(_, _)
splitAtPitchChanges(noteList, frames) ==
    IF Len(noteList) = 0 THEN <<>>
    ELSE LET note == noteList[1]
             startFrame == FloorDiv(note.startTime, HopMs)
             endFrame == CeilDiv(note.startTime + note.duration, HopMs)
             pitchChangeFrames == findPitchChanges(frames, startFrame, endFrame)
         IN  (IF Len(pitchChangeFrames) = 0 THEN <<note>>
              ELSE SplitLoop(frames, note, pitchChangeFrames, 1, note.startTime))
                 \o splitAtPitchChanges(Tail(noteList), frames)

\* for (let i = 0; i < onsets.length; i++): the onset-bounded segments
RECURSIVE SegmentLoop(_, _, _, _, _, _)
SegmentLoop(onsets, frames, velocities, duration, minNoteDuration, i) ==
    IF i > Len(onsets) THEN <<>>
    ELSE LET startTime == onsets[i]
             endTime == IF i < Len(onsets) THEN onsets[i + 1] ELSE duration
             segmentDuration == endTime - startTime
             midi == getSegmentPitch(frames, startTime, endTime)
             velocity == IF i <= Len(velocities) THEN velocities[i].velocity ELSE 80
             rest == SegmentLoop(onsets, frames, velocities, duration,
                                 minNoteDuration, i + 1)
         IN  IF segmentDuration < minNoteDuration \/ midi <= 0 THEN rest
             ELSE <<[midi |-> midi, startTime |-> startTime,
                     duration |-> segmentDuration, velocity |-> velocity]>> \o rest

segmentNotes(onsets, frames, velocities, duration, minNoteDuration, usePitchChanges) ==
    LET segments == SegmentLoop(onsets, frames, velocities, duration, minNoteDuration, 1)
    IN  IF Len(onsets) = 0 THEN <<>>
        ELSE IF usePitchChanges THEN splitAtPitchChanges(segments, frames)
        ELSE segments

MaxFrames == 5
FrameMidis == {0, 60, 64}
OnsetTimes == {0, 25, 100, 150}
MinNoteDurations == {50, 200}

RECURSIVE ContoursOf(_)
ContoursOf(n) ==
    IF n = 0 THEN {<<>>}
    ELSE {Append(t[1], t[2]) : t \in ContoursOf(n - 1) \X FrameMidis}

SegmentArgs ==
    {[kind |-> "segment", onsets |-> SortedSeqOf(t[1]), frames |-> t[2],
      velocities |-> <<[velocity |-> 100]>>, duration |-> MaxFrames * HopMs,
      minNoteDuration |-> t[3], usePitchChanges |-> t[4]] :
        t \in (SUBSET OnsetTimes) \X ContoursOf(MaxFrames) \X MinNoteDurations \X BOOLEAN}

InitSegment ==
    /\ PageInit
    /\ fn = "idle"
    /\ res = <<>>
    /\ arg \in SegmentArgs

ApplySegment ==
    /\ fn = "idle"
    /\ arg.kind = "segment"
    /\ fn' = "segmentNotes"
    /\ res' = segmentNotes(arg.onsets, arg.frames, arg.velocities, arg.duration,
                           arg.minNoteDuration, arg.usePitchChanges)
    /\ UNCHANGED <<arg, pageVars, events>>

NextSegment == ApplySegment

SpecSegment == InitSegment /\ [][NextSegment]_vars

ThresholdNum == 3
ThresholdDen == 2
MinOnsetGapMs == 50
SearchWindowMs == 20
windowHalf == 10
EnergyWindow == 64
EnergyStep == 16
FftWindowSize == 2048

\* spectralFlux[i] > mean + thresholdMultiplier * stddev over the window
\* around frame i, with both sides scaled by the window's count
ExceedsAdaptiveThreshold(flux, i) ==
    LET windowStart == Max(0, i - windowHalf)
        windowEnd == Min(Len(flux), i + windowHalf + 1)
        count == windowEnd - windowStart
        RECURSIVE Sum(_, _)
        Sum(j, power) ==
            IF j >= windowEnd THEN 0
            ELSE (IF power = 1 THEN flux[j + 1] ELSE flux[j + 1] * flux[j + 1])
                     + Sum(j + 1, power)
        sum == Sum(windowStart, 1)
        sumSq == Sum(windowStart, 2)
        excess == count * flux[i + 1] - sum
        variance == Max(0, count * sumSq - sum * sum)
    IN  /\ excess > 0
        /\ ThresholdDen * ThresholdDen * excess * excess
               > ThresholdNum * ThresholdNum * variance

\* for (let i = 1; i < spectralFlux.length - 1; i++): the accepted frames
RECURSIVE PeakLoop(_, _, _, _)
PeakLoop(flux, minGapFrames, i, onsets) ==
    IF i >= Len(flux) - 1 THEN onsets
    ELSE IF flux[i + 1] <= flux[i] \/ flux[i + 1] <= flux[i + 2]
    THEN PeakLoop(flux, minGapFrames, i + 1, onsets)
    ELSE IF ~ExceedsAdaptiveThreshold(flux, i)
    THEN PeakLoop(flux, minGapFrames, i + 1, onsets)
    ELSE IF Len(onsets) = 0 \/ i - onsets[Len(onsets)] >= minGapFrames
    THEN PeakLoop(flux, minGapFrames, i + 1, Append(onsets, i))
    ELSE IF flux[i + 1] > flux[onsets[Len(onsets)] + 1]
    THEN PeakLoop(flux, minGapFrames, i + 1, [onsets EXCEPT ![Len(onsets)] = i])
    ELSE PeakLoop(flux, minGapFrames, i + 1, onsets)

pickPeaks(flux, hopSize, sampleRate) ==
    IF Len(flux) = 0 THEN <<>>
    ELSE PeakLoop(flux, FloorDiv(MinOnsetGapMs * sampleRate, 1000 * hopSize), 1, <<>>)

\* the energy of the 64 samples from i on, for audio of unit amplitude with
\* one silent stretch
WindowEnergy(audio, i) ==
    EnergyWindow - Max(0, Min(i + EnergyWindow, audio.silentTo) - Max(i, audio.silentFrom))

\* for (let i = searchStart; i < searchEnd - windowSize; i += 16)
RECURSIVE EnergyLoop(_, _, _, _, _)
EnergyLoop(audio, i, searchEnd, minEnergy, minIndex) ==
    IF i >= searchEnd - EnergyWindow THEN minIndex
    ELSE LET energy == WindowEnergy(audio, i)
         IN  IF minEnergy = -1 \/ energy < minEnergy
             THEN EnergyLoop(audio, i + EnergyStep, searchEnd, energy, i)
             ELSE EnergyLoop(audio, i + EnergyStep, searchEnd, minEnergy, minIndex)

\* refineOnsets(audioData, onsets, sampleRate) on the sample indices of the
\* onsets (minEnergy -1 stands for Infinity)
refineOnsets(audio, onsetSamples, sampleRate) ==
    LET searchSamples == FloorDiv(SearchWindowMs * sampleRate, 1000)
    IN  [k \in 1..Len(onsetSamples) |->
            LET sampleIndex == onsetSamples[k]
                searchStart == Max(0, sampleIndex - searchSamples)
                searchEnd == Min(audio.length, sampleIndex + FloorDiv(searchSamples, 2))
            IN  EnergyLoop(audio, searchStart, searchEnd, -1, sampleIndex)]

\* the analysis pipeline: detectOnsets, then refineOnsets
pipelineOnsets(flux, audio, hopSize, sampleRate) ==
    LET onsetFrames == pickPeaks(flux, hopSize, sampleRate)
    IN  refineOnsets(audio, [k \in 1..Len(onsetFrames) |-> onsetFrames[k] * hopSize],
                     sampleRate)

MaxFluxLen == 7
FluxValues == {0, 5, 9}
OnsetSampleRates == {44100, 48000}
OnsetHopSize == 512
SilentStretches == {<<0, 0>>, <<400, 600>>, <<2000, 2200>>}

\* the flux of frame 0 is always 0
RECURSIVE FluxesOf(_)
FluxesOf(n) ==
    IF n = 1 THEN {<<0>>}
    ELSE {Append(t[1], t[2]) : t \in FluxesOf(n - 1) \X FluxValues}

OnsetArgs ==
    {[kind |-> "onsets", flux |-> t[1], sampleRate |-> t[2], hopSize |-> OnsetHopSize,
      audio |-> [length |-> (MaxFluxLen - 1) * OnsetHopSize + FftWindowSize,
                 silentFrom |-> t[3][1], silentTo |-> t[3][2]]] :
        t \in FluxesOf(MaxFluxLen) \X OnsetSampleRates \X SilentStretches}

InitOnsets ==
    /\ PageInit
    /\ fn = "idle"
    /\ res = <<>>
    /\ arg \in OnsetArgs

ApplyOnsets ==
    /\ fn = "idle"
    /\ arg.kind = "onsets"
    /\ fn' = "refineOnsets"
    /\ res' = pipelineOnsets(arg.flux, arg.audio, arg.hopSize, arg.sampleRate)
    /\ UNCHANGED <<arg, pageVars, events>>

NextOnsets == ApplyOnsets

SpecOnsets == InitOnsets /\ [][NextOnsets]_vars

\* C16: the onsets the pipeline produces (peak picking, then refinement) are
\* strictly increasing in time and consecutive onsets are at least
\* minOnsetGap (50 ms) apart.
C16_OnsetsIncreasingAndSpaced ==
    fn = "refineOnsets" =>
        \A k \in 1..(Len(res) - 1) :
            /\ res[k + 1] > res[k]
            /\ (res[k + 1] - res[k]) * 1000 >= MinOnsetGapMs * arg.sampleRate


(***************************************************************************)
(* tempoAnalyzer.ts with the default options (minBPM 60, maxBPM 180, 10 ms *)
(* bins).  Onset times are whole milliseconds, an inter-onset interval is  *)
(* counted in half milliseconds, a histogram bin is named by its index k   *)
(* (the key k * 0.01 s), and a confidence is a fraction [num, den].        *)
(***************************************************************************)
minBPM == 60
maxBPM == 180
\* histogramBinSize = 0.01 s, in half milliseconds
BinHalfMs == 20
\* the bounds 0.1 s and 2.0 s of calculateIOIs, in half milliseconds
MinIoiHalfMs == 200
MaxIoiHalfMs == 4000
\* 60 s in half milliseconds
MinuteHalfMs == 120000

\* bins k for which the key k * 0.01 - 0.01 (or + 0.01) is not the double
\* (k - 1) * 0.01 (or (k + 1) * 0.01), so that histogram.get misses the
\* neighbouring bin; bins 33..100 are the ones the default options admit
NeighbourBelowMissed == {36, 42, 48, 58, 71, 84, 96}
NeighbourAboveMissed == {35, 41, 47, 57, 70, 83, 95}

\* one loop of calculateIOIs: the intervals onsets[i] - onsets[i - step],
\* divided by step, that lie in 0.1 s .. 2.0 s
RECURSIVE IOILoop(_, _, _)
IOILoop(onsets, step, i) ==
    IF i > Len(onsets) THEN <<>>
    ELSE LET ioi == ((onsets[i] - onsets[i - step]) * 2) \div step
         IN  (IF ioi >= MinIoiHalfMs /\ ioi <= MaxIoiHalfMs THEN <<ioi>> ELSE <<>>)
                 \o IOILoop(onsets, step, i + 1)

\* (mutant) the intervals across two onsets are not halved
calculateIOIsMutant(onsets) ==
    IOILoop(onsets, 1, 2)
        \o [k \in 1..Len(IOILoop(onsets, 2, 3)) |-> 2 * IOILoop(onsets, 2, 3)[k]]

calculateIOIs(onsets) == IOILoop(onsets, 1, 2) \o IOILoop(onsets, 2, 3)

\* buildIOIHistogram: the Map as the list of its entries in insertion order
RECURSIVE HistogramLoop(_, _, _)
HistogramLoop(iois, i, histogram) ==
    IF i > Len(iois) THEN histogram
    ELSE IF iois[i] * maxBPM < MinuteHalfMs \/ iois[i] * minBPM > MinuteHalfMs
    THEN HistogramLoop(iois, i + 1, histogram)
    ELSE LET bin == RoundDiv(iois[i], BinHalfMs)
             at == {e \in 1..Len(histogram) : histogram[e].bin = bin}
         IN  HistogramLoop(iois, i + 1,
                 IF at = {} THEN Append(histogram, [bin |-> bin, count |-> 1])
                 ELSE [e \in 1..Len(histogram) |->
                          IF e \in at THEN [histogram[e] EXCEPT !.count = @ + 1]
                          ELSE histogram[e]])

buildIOIHistogram(iois) == HistogramLoop(iois, 1, <<>>)

\* histogram.get(key) || 0
HistogramGet(histogram, bin) ==
    LET at == {e \in 1..Len(histogram) : histogram[e].bin = bin}
    IN  IF at = {} THEN 0 ELSE histogram[CHOOSE e \in at : TRUE].count

\* peaks.sort((a, b) => b.count - a.count), stable
RECURSIVE InsertByCount(_, _)
InsertByCount(sorted, x) ==
    IF Len(sorted) = 0 THEN <<x>>
    ELSE IF sorted[Len(sorted)].count >= x.count THEN Append(sorted, x)
    ELSE Append(InsertByCount(SubSeq(sorted, 1, Len(sorted) - 1), x), sorted[Len(sorted)])
RECURSIVE SortByCountDescending(_)
SortByCountDescending(list) ==
    IF Len(list) = 0 THEN <<>>
    ELSE InsertByCount(SortByCountDescending(SubSeq(list, 1, Len(list) - 1)),
                       list[Len(list)])

RECURSIVE SumCounts(_)
SumCounts(peaks) ==
    IF Len(peaks) = 0 THEN 0 ELSE peaks[1].count + SumCounts(Tail(peaks))

\* findDominantIOI: [bin, confidence]; the default 0.5 s is bin 50
findDominantIOI(histogram) ==
    IF Len(histogram) = 0 THEN [bin |-> 50, confidence |-> [num |-> 0, den |-> 1]]
    ELSE LET peaks == SortByCountDescending(
                 [e \in 1..Len(histogram) |->
                     [ioi |-> histogram[e].bin,
                      count |-> histogram[e].count
                          + (IF histogram[e].bin \in NeighbourBelowMissed THEN 0
                             ELSE HistogramGet(histogram, histogram[e].bin - 1))
                          + (IF histogram[e].bin \in NeighbourAboveMissed THEN 0
                             ELSE HistogramGet(histogram, histogram[e].bin + 1))]])
             topPeak == peaks[1]
             totalCounts == SumCounts(peaks)
             \* Math.min(1, topPeak.count / (totalCounts * 0.3))
             confidence == IF 10 * topPeak.count >= 3 * totalCounts
                           THEN [num |-> 1, den |-> 1]
                           ELSE [num |-> 10 * topPeak.count, den |-> 3 * totalCounts]
             lowered == [num |-> 9 * confidence.num, den |-> 10 * confidence.den]
             second == peaks[2]
             \* Math.abs(ratio - 2) < 0.1 and Math.abs(ratio - 0.5) < 0.05
             nearDouble == 10 * Abs(second.ioi - 2 * topPeak.ioi) < topPeak.ioi
             nearHalf == 20 * Abs(2 * second.ioi - topPeak.ioi) < 2 * topPeak.ioi
         IN  IF /\ Len(peaks) >= 2
                /\ nearDouble /\ 2 * second.count > topPeak.count
                /\ 6000 > 140 * topPeak.ioi
                /\ 6000 >= 60 * second.ioi /\ 6000 <= 120 * second.ioi
             THEN [bin |-> second.ioi, confidence |-> lowered]
             ELSE IF /\ Len(peaks) >= 2
                     /\ nearHalf /\ 10 * second.count > 7 * topPeak.count
                     /\ 6000 >= 80 * second.ioi /\ 6000 <= 140 * second.ioi
             THEN [bin |-> second.ioi, confidence |-> lowered]
             ELSE [bin |-> topPeak.ioi, confidence |-> confidence]

\* (mutant) three onsets are enough
analyzeTempoMutant(onsets) ==
    IF Len(onsets) < 3 THEN [bpm |-> 120, confidence |-> [num |-> 0, den |-> 1]]
    ELSE LET dominant == findDominantIOI(buildIOIHistogram(calculateIOIs(onsets)))
         IN  [bpm |-> RoundDiv(6000, dominant.bin), confidence |-> dominant.confidence]

\* analyzeTempo(onsets): bpm = Math.round(60 / dominantIOI) and the confidence
analyzeTempo(onsets) ==
    IF Len(onsets) < 4 THEN [bpm |-> 120, confidence |-> [num |-> 0, den |-> 1]]
    ELSE LET dominant == findDominantIOI(buildIOIHistogram(calculateIOIs(onsets)))
         IN  [bpm |-> RoundDiv(6000, dominant.bin), confidence |-> dominant.confidence]

MaxMetronomeOnsets == 16
\* metronome periods: the multiples of 10 ms from 60/maxBPM to 60/minBPM
MetronomePeriods == {p \in 1..1000 : p % 10 = 0 /\ p * maxBPM >= 60000 /\ p * minBPM <= 60000}
MetronomeOnsets(p, n) == [i \in 1..n |-> (i - 1) * p]
\* times other onset lists are drawn from (ms)
TempoOnsetTimes == {0, 40, 400, 500, 900, 1000, 1500, 2000, 3000, 4500}

TempoArgs ==
    {[kind |-> "tempo", metronome |-> t[1], onsets |-> MetronomeOnsets(t[1], t[2])] :
        t \in MetronomePeriods \X (4..MaxMetronomeOnsets)}
    \cup {[kind |-> "tempo", metronome |-> 0, onsets |-> SortedSeqOf(S)] :
            S \in SUBSET TempoOnsetTimes}

InitTempo ==
    /\ PageInit
    /\ fn = "idle"
    /\ res = <<>>
    /\ arg \in TempoArgs

ApplyTempo ==
    /\ fn = "idle"
    /\ arg.kind = "tempo"
    /\ fn' = "analyzeTempo"
    /\ res' = analyzeTempo(arg.onsets)
    /\ UNCHANGED <<arg, pageVars, events>>

NextTempo == ApplyTempo

SpecTempo == InitTempo /\ [][NextTempo]_vars

TempoAnalyzed == fn = "analyzeTempo"

\* C17: for the onsets of an exact metronome (period p a multiple of 10 ms
\* between 60/maxBPM and 60/minBPM, at least 4 onsets) analyzeTempo returns
\* bpm = round(60 / p) with a confidence above 0.5; 16 onsets 0.5 s apart give
\* a bpm in 118..122.
C17_MetronomeTempo ==
    (TempoAnalyzed /\ arg.metronome # 0) =>
        /\ res.bpm = RoundDiv(60000, arg.metronome)
        /\ 2 * res.confidence.num > res.confidence.den
        /\ (arg.metronome = 500 /\ Len(arg.onsets) = 16) => res.bpm \in 118..122
\* C17 witness: 16 onsets 0.5 s apart analysed as 120 BPM
C17_Witness ==
    /\ TempoAnalyzed
    /\ arg.metronome = 500
    /\ Len(arg.onsets) = 16
    /\ res.bpm = 120

\* no interval of the onsets is counted in the histogram
NoTimingEvidence(onsets) ==
    \/ Len(onsets) < 4
    \/ \A i \in 2..Len(onsets) : \A step \in {1, 2} :
          i - step >= 1 =>
              LET ioi == ((onsets[i] - onsets[i - step]) * 2) \div step
              IN  \/ ioi < MinIoiHalfMs \/ ioi > MaxIoiHalfMs
                  \/ ioi * maxBPM < MinuteHalfMs \/ ioi * minBPM > MinuteHalfMs

\* C18: with fewer than 4 onsets, or with every interval outside the range
\* the BPM limits imply, analyzeTempo returns bpm 120 with confidence 0; the
\* confidence it returns is always between 0 and 1.
C18_TempoFallback ==
    TempoAnalyzed =>
        /\ NoTimingEvidence(arg.onsets) => (res.bpm = 120 /\ res.confidence.num = 0)
        /\ res.confidence.den > 0
        /\ res.confidence.num >= 0
        /\ res.confidence.num <= res.confidence.den
\* C18 witness: four or more onsets, none of whose intervals is in range,
\* analysed as the fallback
C18_Witness ==
    /\ TempoAnalyzed
    /\ Len(arg.onsets) >= 4
    /\ NoTimingEvidence(arg.onsets)
    /\ res.bpm = 120
    /\ res.confidence.num = 0


(***************************************************************************)
(* dynamicsAnalyzer: detectDynamicContours with its defaults.  A velocity  *)
(* list is the list of the velocity fields; indices count from 0 as in the *)
(* code.                                                                   *)
(***************************************************************************)
ContourMinLength == 3
ContourMinChange == 20
ContourStep == 5

ContourOf(velocities, trendDirection, trendStart, endIndex) ==
    LET length == endIndex + 1 - trendStart
        totalChange == velocities[endIndex + 1] - velocities[trendStart + 1]
    IN  IF /\ trendDirection # "none"
           /\ length >= ContourMinLength
           /\ Abs(totalChange) >= ContourMinChange
        THEN <<[type |-> IF trendDirection = "up" THEN "crescendo" ELSE "decrescendo",
                startIndex |-> trendStart, endIndex |-> endIndex,
                change |-> totalChange]>>
        ELSE <<>>

\* for (let i = 1; i < velocities.length; i++), then the final trend
RECURSIVE ContourLoop(_, _, _, _)
ContourLoop(velocities, i, trendStart, trendDirection) ==
    IF i >= Len(velocities)
    THEN ContourOf(velocities, trendDirection, trendStart, Len(velocities) - 1)
    ELSE LET diff == velocities[i + 1] - velocities[i]
             currentDirection == IF diff > ContourStep THEN "up"
                                 ELSE IF diff < -ContourStep THEN "down" ELSE "none"
         IN  IF currentDirection = "none"
             THEN ContourLoop(velocities, i + 1, trendStart, trendDirection)
             ELSE IF trendDirection = "none"
             THEN ContourLoop(velocities, i + 1, i - 1, currentDirection)
             ELSE IF currentDirection # trendDirection
             THEN ContourOf(velocities, trendDirection, trendStart, i - 1)
                      \o ContourLoop(velocities, i + 1, i - 1, currentDirection)
             ELSE ContourLoop(velocities, i + 1, trendStart, trendDirection)

detectDynamicContours(velocities) ==
    IF Len(velocities) < ContourMinLength THEN <<>>
    ELSE ContourLoop(velocities, 1, 0, "none")

MaxVelocities == 4
VelocityValues == {40, 44, 50, 60, 70}

RECURSIVE VelocityLists(_)
VelocityLists(n) ==
    IF n = 0 THEN {<<>>}
    ELSE LET S == VelocityLists(n - 1)
         IN  S \cup {Append(t[1], t[2]) : t \in {u \in S \X VelocityValues : Len(u[1]) = n - 1}}

ContourArgs == {[kind |-> "contours", velocities |-> v] : v \in VelocityLists(MaxVelocities)}

InitContours ==
    /\ PageInit
    /\ fn = "idle"
    /\ res = <<>>
    /\ arg \in ContourArgs

ApplyContours ==
    /\ fn = "idle"
    /\ arg.kind = "contours"
    /\ fn' = "detectDynamicContours"
    /\ res' = detectDynamicContours(arg.velocities)
    /\ UNCHANGED <<arg, pageVars, events>>

NextContours == ApplyContours

SpecContours == InitContours /\ [][NextContours]_vars

\* C19: every contour detectDynamicContours reports spans at least 3
\* segments, each velocity step inside it moves in the labelled direction by
\* more than 5, and its total change is at least 20 in that direction.
C19_ContoursMonotone ==
    fn = "detectDynamicContours" =>
        \A c \in 1..Len(res) :
            LET sign == IF res[c].type = "crescendo" THEN 1 ELSE -1
            IN  /\ res[c].endIndex - res[c].startIndex + 1 >= ContourMinLength
                /\ \A j \in (res[c].startIndex + 1)..res[c].endIndex :
                      sign * (arg.velocities[j + 1] - arg.velocities[j]) > ContourStep
                /\ sign * res[c].change >= ContourMinChange


(***************************************************************************)
(* Configuration values outside the tables: quantizeNotes, generateHarmony *)
(* and suggestChords applied with a quantization level or a key signature  *)
(* that no table of the program holds.                                     *)
(***************************************************************************)
UnknownKey == "H"
UnknownQuantization == "thirty-second"
ConfigKeys == {"C", UnknownKey}
ConfigQuantizations == {"eighth", UnknownQuantization}
ConfigDurTicks == {420, 840}

ConfigArgs ==
    [kind : {"quantize"},
     note : [midi : {61}, startTime : StartTicks, duration : ConfigDurTicks, velocity : {80}],
     tempo : QuantTempos, minQ : ConfigQuantizations, key : ConfigKeys]
    \cup {[a EXCEPT !.key = key] : <<a, key>> \in PlayArgs \X ConfigKeys}
    \cup {[a EXCEPT !.key = key] :
            <<a, key>> \in {s \in SuggestArgs : Len(s.melody) = 1} \X ConfigKeys}

InitConfig ==
    /\ PageInit
    /\ fn = "idle"
    /\ res = <<>>
    /\ arg \in ConfigArgs

NextConfig == ApplyQuantize \/ ApplyHarmony \/ ApplySuggest

SpecConfig == InitConfig /\ [][NextConfig]_vars

\* the call's key signature is in no key table, or its quantization level is
\* not a note duration
BadConfiguration ==
    \/ arg.key \notin (KeyNames \cup HarmonyKeyNames)
    \/ arg.kind = "quantize" /\ arg.minQ \notin DurationNames

\* C20: a call of quantizeNotes, generateHarmony or suggestChords with an
\* unsupported quantization level or an unknown key signature stops with an
\* error and produces no notes, voices or chords.
C20_BadConfigurationProducesNothing ==
    (fn \in {"quantizeNotes", "generateHarmony", "suggestChords"} /\ BadConfiguration)
        => Len(res) = 0

(***************************************************************************)
(* Claim about input errors (checked under SpecLoad)                       *)
(***************************************************************************)
\* the load request req ends in a rejection of analyze or of parseMidiFile
LoadFails(req) ==
    \/ req.kind = "audio" /\ analyzeResult(req.file).outcome = "rejected"
    \/ req.kind = "midi" /\ parseMidiFileResult(req.file).outcome = "rejected"

\* C21: an input error is fatal to the request and leaves no partial result.
\* The step in which a failing analyze settles sets the hook's error to the
\* error's message, returns isAnalyzing to false and leaves the page's notes,
\* measures and tempo as they were (empty, when nothing was edited since the
\* file was chosen); a failing parseMidiFile leaves them alike; and a file whose
\* first chunk is not MThd makes parseMidiFile reject with no notes.
C21_InputErrorLeavesNoPartialResult ==
    [][ /\ parseMidiFile(BrokenMidiFile).outcome = "rejected"
        /\ parseMidiFile(BrokenMidiFile).notes = <<>>
        /\ \A req \in pending :
              (pending' = pending \ {req} /\ LoadFails(req)) =>
                 /\ notes' = notes /\ measures' = measures /\ tempo' = tempo
                 /\ shown' = shown
                 /\ lastOp \in {"handleFileSelect", "handleMidiSelect"} =>
                       (notes' = <<>> /\ measures' = <<>>)
                 /\ req.kind = "audio" =>
                       (error' = analyzeResult(req.file).message /\ ~isAnalyzing') ]_vars

\* C21 witness: an analysis has failed: the error is set, isAnalyzing is back
\* to false and the page shows no notes
C21_Witness ==
    /\ lastOp = "analyzeSettled"
    /\ error = "Unable to decode audio data"
    /\ ~isAnalyzing
    /\ notes = <<>> /\ measures = <<>>

(***************************************************************************)
(* MIDI export (generateMidiFile / generateMultiTrackMidiFile /            *)
(* buildTrackData).  The file is written as a sequence of bytes.           *)
(***************************************************************************)
ExportTicksPerBeat == 480

\* Math.round(60000000 / tempo)
MicrosecondsPerBeat(bpm) == RoundDiv(60000000, bpm)

\* secondsToTicks: Math.round(seconds * (tempo / 60) * ticksPerBeat), seconds
\* in ticks of 1/840 s
secondsToTicks(seconds, bpm) == RoundDiv(seconds * bpm * ExportTicksPerBeat, TicksPerMinute)

\* the bytes above the lowest seven bits, each with the continuation bit set
RECURSIVE ContinuationBytes(_)
ContinuationBytes(value) ==
    IF value = 0 THEN <<>>
    ELSE Append(ContinuationBytes(value \div 128), (value % 128) + 128)

\* writeVariableLength: the bytes it pushes
writeVariableLength(value) ==
    IF value < 0 THEN <<0>>
    ELSE Append(ContinuationBytes(value \div 128), value % 128)

\* the note-on and note-off of each note, in the order of the sorted notes
RECURSIVE NoteOnOffs(_, _, _)
NoteOnOffs(sortedNotes, bpm, i) ==
    IF i > Len(sortedNotes) THEN <<>>
    ELSE << [tick |-> secondsToTicks(sortedNotes[i].startTime, bpm), type |-> "noteOn",
             note |-> sortedNotes[i].midi,
             velocity |-> IF sortedNotes[i].velocity = 0 THEN 80 ELSE sortedNotes[i].velocity],
            [tick |-> secondsToTicks(sortedNotes[i].startTime + sortedNotes[i].duration, bpm),
             type |-> "noteOff", note |-> sortedNotes[i].midi, velocity |-> 0] >>
         \o NoteOnOffs(sortedNotes, bpm, i + 1)

\* the comparator of events.sort: negative, zero or positive
compareEventsMutant(a, b) == 0

compareEvents(a, b) ==
    IF a.tick # b.tick THEN a.tick - b.tick
    ELSE IF a.type = "noteOff" /\ b.type = "noteOn" THEN -1
    ELSE IF a.type = "noteOn" /\ b.type = "noteOff" THEN 1
    ELSE 0

\* events.sort(compare): a stable sort
RECURSIVE InsertEvent(_, _)
InsertEvent(sorted, x) ==
    IF sorted = <<>> THEN <<x>>
    ELSE IF compareEvents(sorted[Len(sorted)], x) <= 0 THEN Append(sorted, x)
    ELSE Append(InsertEvent(SubSeq(sorted, 1, Len(sorted) - 1), x), sorted[Len(sorted)])

RECURSIVE SortEvents(_)
SortEvents(list) ==
    IF list = <<>> THEN <<>>
    ELSE InsertEvent(SortEvents(SubSeq(list, 1, Len(list) - 1)), list[Len(list)])

\* the sorted event list of a track
trackEvents(noteList, bpm) == SortEvents(NoteOnOffs(SortByStartTime(noteList), bpm, 1))

\* the loop that writes the events: delta time, status byte, note, velocity
RECURSIVE WriteEvents(_, _, _, _)
WriteEvents(eventList, i, lastTick, channel) ==
    IF i > Len(eventList) THEN <<>>
    ELSE writeVariableLength(eventList[i].tick - lastTick)
         \o (IF eventList[i].type = "noteOn"
             THEN <<144 + (channel % 16), eventList[i].note % 128, eventList[i].velocity % 128>>
             ELSE <<128 + (channel % 16), eventList[i].note % 128, 0>>)
         \o WriteEvents(eventList, i + 1, eventList[i].tick, channel)

EndOfTrack == <<0, 255, 47, 0>>

\* buildTrackData; name is the track name's UTF-8 bytes
buildTrackData(track, bpm) ==
    (IF track.name # <<>>
     THEN <<0, 255, 3>> \o writeVariableLength(Len(track.name)) \o track.name
     ELSE <<>>)
    \o <<0, 192 + (track.channel % 16), track.program % 128>>
    \o WriteEvents(trackEvents(track.notes, bpm), 1, 0, track.channel)
    \o EndOfTrack

\* the conductor track: tempo, time signature, end of track
conductorTrack(bpm) ==
    <<0, 255, 81, 3,
      (MicrosecondsPerBeat(bpm) \div 65536) % 256,
      (MicrosecondsPerBeat(bpm) \div 256) % 256,
      MicrosecondsPerBeat(bpm) % 256>>
    \o <<0, 255, 88, 4, 4, 2, 24, 8>>
    \o EndOfTrack

\* a track chunk: "MTrk", the length in four bytes, the data
trackChunk(trackData) ==
    ChunkMTrk
    \o <<(Len(trackData) \div 16777216) % 256, (Len(trackData) \div 65536) % 256,
         (Len(trackData) \div 256) % 256, Len(trackData) % 256>>
    \o trackData

RECURSIVE TrackChunks(_, _, _)
TrackChunks(tracks, bpm, i) ==
    IF i > Len(tracks) THEN <<>>
    ELSE trackChunk(buildTrackData(tracks[i], bpm)) \o TrackChunks(tracks, bpm, i + 1)

generateMultiTrackMidiFile(tracks, bpm) ==
    ChunkMThd \o <<0, 0, 0, 6>> \o <<0, 1>>
    \o <<((Len(tracks) + 1) \div 256) % 256, (Len(tracks) + 1) % 256>>
    \o <<(ExportTicksPerBeat \div 256) % 256, ExportTicksPerBeat % 256>>
    \o trackChunk(conductorTrack(bpm))
    \o TrackChunks(tracks, bpm, 1)

\* "Melody" in UTF-8
MelodyName == <<77, 101, 108, 111, 100, 121>>

generateMidiFile(noteList, bpm) ==
    generateMultiTrackMidiFile(<< [name |-> MelodyName, notes |-> noteList,
                                   channel |-> 0, program |-> 0] >>, bpm)

(***************************************************************************)
(* The MIDI exporter and importer as pure functions: Init draws a note     *)
(* list and a tempo to export, or the bytes of a file to import; the       *)
(* exported file can be imported again.                                    *)
(***************************************************************************)
MaxExportNotes == 2
ExportMidis == {60, 62}
ExportStarts == {0, 420, 840}
ExportDurations == {1, 420, 840}
ExportVelocities == {0, 100}
ExportTempos == {40, 60, 120}

ExportNoteValues ==
    [midi : ExportMidis, startTime : ExportStarts, duration : ExportDurations,
     velocity : ExportVelocities]

ExportArgs ==
    [kind : {"export"},
     notes : UNION {[1..n -> ExportNoteValues] : n \in 0..MaxExportNotes},
     tempo : ExportTempos]

ApplyExport ==
    /\ fn = "idle"
    /\ arg.kind = "export"
    /\ fn' = "generateMidiFile"
    /\ res' = [events |-> trackEvents(arg.notes, arg.tempo),
               file |-> generateMidiFile(arg.notes, arg.tempo)]
    /\ UNCHANGED <<arg, pageVars, events>>

ApplyReimport ==
    /\ fn = "generateMidiFile"
    /\ fn' = "parseMidiFile"
    /\ res' = [events |-> res.events, file |-> res.file,
               imported |-> parseMidiFile(res.file)]
    /\ UNCHANGED <<arg, pageVars, events>>

\* ---- files to import, described by their tracks' events
ImportTempos == {60, 100}
TempoEvent(bpm) == [delta |-> 0, kind |-> "tempo", value |-> bpm]
TempoEvents == {<<>>} \cup {<<TempoEvent(bpm)>> : bpm \in ImportTempos}
\* no note, or one note 64 that lasts 480 ticks
NoteEvents == {<<>>, << [delta |-> 0, kind |-> "on", value |-> 64],
                        [delta |-> 480, kind |-> "off", value |-> 64] >>}

\* a track: tempo events (or none) before and after an optional note
ImportTracks == {before \o note \o after : before \in TempoEvents, note \in NoteEvents, after \in TempoEvents}

MaxImportTracks == 2
ImportHeaders == {ChunkMThd, <<82, 73, 70, 70>>}

ImportArgs ==
    [kind : {"import"},
     header : ImportHeaders,
     tracks : UNION {[1..n -> ImportTracks] : n \in 1..MaxImportTracks}]

\* the bytes of one described event
EventBytes(e) ==
    writeVariableLength(e.delta)
    \o CASE e.kind = "tempo" ->
              <<255, 81, 3, (MicrosecondsPerBeat(e.value) \div 65536) % 256,
                (MicrosecondsPerBeat(e.value) \div 256) % 256,
                MicrosecondsPerBeat(e.value) % 256>>
         [] e.kind = "on" -> <<144, e.value, 100>>
         [] OTHER -> <<128, e.value, 0>>

RECURSIVE EventsBytes(_, _)
EventsBytes(eventList, i) ==
    IF i > Len(eventList) THEN <<>>
    ELSE EventBytes(eventList[i]) \o EventsBytes(eventList, i + 1)

RECURSIVE DescribedChunks(_, _)
DescribedChunks(tracks, i) ==
    IF i > Len(tracks) THEN <<>>
    ELSE trackChunk(EventsBytes(tracks[i], 1) \o EndOfTrack) \o DescribedChunks(tracks, i + 1)

\* the bytes of a described file
MidiFileOf(header, tracks) ==
    header \o <<0, 0, 0, 6, 0, 1, 0, Len(tracks), 1, 224>> \o DescribedChunks(tracks, 1)

InitMidi ==
    /\ PageInit
    /\ arg \in ExportArgs \cup ImportArgs
    /\ fn = "idle"
    /\ res = <<>>

ApplyImport ==
    /\ fn = "idle"
    /\ arg.kind = "import"
    /\ fn' = "parseMidiFile"
    /\ res' = [file |-> MidiFileOf(arg.header, arg.tracks),
               imported |-> parseMidiFile(MidiFileOf(arg.header, arg.tracks))]
    /\ UNCHANGED <<arg, pageVars, events>>

NextMidi == ApplyExport \/ ApplyReimport \/ ApplyImport

SpecMidi == InitMidi /\ [][NextMidi]_vars

(***************************************************************************)
(* Claims about the MIDI files (checked under SpecMidi)                    *)
(***************************************************************************)
Exported == arg.kind = "export" /\ fn \in {"generateMidiFile", "parseMidiFile"}

\* the note events of the melody track of an exported file, as written: the
\* chunk after the header (14 bytes) and the conductor track's chunk
WrittenEvents(file) ==
    parseTrack(readChunk(file, 22 + readChunk(file, 14).length).data, 120, <<>>).noteEvents

\* C22: in the track the exporter writes, the note events are in
\* non-decreasing tick order, every delta time written is the non-negative
\* distance to the previous event, and among events at the same tick every
\* note-off comes before every note-on.
C22_TrackEventsOrdered ==
    Exported =>
        /\ \A i, j \in 1..Len(res.events) :
              i < j => /\ res.events[i].tick <= res.events[j].tick
                       /\ ~(/\ res.events[i].tick = res.events[j].tick
                            /\ res.events[i].type = "noteOn"
                            /\ res.events[j].type = "noteOff")
        /\ Len(WrittenEvents(res.file)) = Len(res.events)
        /\ \A i \in 1..Len(res.events) :
              /\ WrittenEvents(res.file)[i].tick = res.events[i].tick
              /\ WrittenEvents(res.file)[i].note = res.events[i].note
              /\ (WrittenEvents(res.file)[i].type = "on") = (res.events[i].type = "noteOn")

\* C22 witness: an exported track where a note ends at the tick the next one
\* starts, and the input list was not in start-time order
C22_Witness ==
    /\ Exported
    /\ Len(arg.notes) = 2
    /\ arg.notes[1].startTime > arg.notes[2].startTime
    /\ \E i \in 1..Len(res.events) - 1 :
          /\ res.events[i].tick = res.events[i + 1].tick
          /\ res.events[i].type = "noteOff" /\ res.events[i + 1].type = "noteOn"

Imported == arg.kind = "import" /\ fn = "parseMidiFile" /\ arg.header = ChunkMThd

\* the tempo events of a described file, in file order
RECURSIVE DescribedTempos(_, _)
DescribedTempos(tracks, i) ==
    IF i > Len(tracks) THEN <<>>
    ELSE SelectSeq(tracks[i], LAMBDA e : e.kind = "tempo") \o DescribedTempos(tracks, i + 1)

\* C23: parseMidiFile returns tempo 120 when the file has no tempo meta-event,
\* and otherwise the tempo of the first tempo meta-event in the file, however
\* many follow; every note's ticks are converted to seconds with that tempo
\* (a note of 480 ticks at 480 ticks per beat lasts one beat of it).
C23_FirstTempoEventIsTheTempo ==
    Imported =>
        /\ res.imported.tempo = IF DescribedTempos(arg.tracks, 1) = <<>> THEN 120
                                ELSE DescribedTempos(arg.tracks, 1)[1].value
        /\ \A k \in 1..Len(res.imported.notes) :
              res.imported.notes[k].duration = TicksPerMinute \div res.imported.tempo

(***************************************************************************)
(* generateHarmony over the whole MIDI range: Init draws a style, a key, a *)
(* mode, a chord track and a melody with pitches from both ends of 0..127. *)
(***************************************************************************)
MaxRangeLen == 2
RangeMidis == {0, 5, 64, 120, 127}
RangeKeys == {"C", "F"}

RangeArgs ==
    {[kind |-> "harmony", style |-> style, key |-> key, isMinor |-> isMinor,
      chords |-> chordList, tempo |-> 120, melody |-> MelodyOf(midis)] :
        <<style, key, isMinor, chordList, midis>> \in
            HarmonyStyles \X RangeKeys \X BOOLEAN \X PlayChordLists
                \X (MidiLists(RangeMidis, MaxRangeLen) \ {<<>>})}

InitRange ==
    /\ PageInit
    /\ fn = "idle"
    /\ res = <<>>
    /\ arg \in RangeArgs

SpecRange == InitRange /\ [][NextHarm]_vars

\* C24: every note of every voice generateHarmony returns has a midi number
\* in 0..127, for every style, key and mode, with or without an active chord,
\* when the melody's own midi numbers are in 0..127.
C24_HarmonyMidiInRange ==
    Harmonized =>
        \A v \in 1..Len(res) : \A k \in 1..Len(res[v].notes) :
            res[v].notes[k].midi \in 0..127

(***************************************************************************)
(* Claim about the direction of the diatonic styles (checked under         *)
(* SpecHarm)                                                               *)
(***************************************************************************)
\* the pitch n scale steps above (dir = 1) or below (dir = -1) a scale note
RECURSIVE ScaleStepsFrom(_, _, _, _, _)
ScaleStepsFrom(midi, n, key, isMinor, dir) ==
    IF n = 0 THEN midi
    ELSE ScaleStepsFrom(NextScaleNote(midi, key, isMinor, dir), n - 1, key, isMinor, dir)

\* the interval in scale degrees and the range of a diatonic style
StyleInterval(style) ==
    CASE style = "thirds-above" -> 2 [] style = "thirds-below" -> -2
      [] style = "sixths-above" -> 5 [] OTHER -> -5

StyleRange(style) ==
    IF StyleInterval(style) > 0 THEN [min |-> 48, max |-> 96] ELSE [min |-> 36, max |-> 84]

\* the harmony pitch the style intends for a melody note
IntendedPitch(midi, style, key, isMinor) ==
    ScaleStepsFrom(midi, Abs(StyleInterval(style)), key, isMinor, Sign(StyleInterval(style)))

\* C25: for 'thirds-below' and 'sixths-below' every harmony note is strictly
\* lower than the melody note it accompanies, and for 'thirds-above' and
\* 'sixths-above' strictly higher, for every key and mode and every in-scale
\* melody note whose intended harmony pitch lies inside the style's range,
\* the first note of the melody included.
C25_HarmonyOnItsSideOfTheMelody ==
    (Harmonized /\ arg.style \in SimpleStyles) =>
        \A k \in 1..Len(arg.melody) :
            (/\ IntendedPitch(arg.melody[k].midi, arg.style, arg.key, arg.isMinor)
                    >= StyleRange(arg.style).min
             /\ IntendedPitch(arg.melody[k].midi, arg.style, arg.key, arg.isMinor)
                    <= StyleRange(arg.style).max)
            => IF StyleInterval(arg.style) < 0
               THEN res[1].notes[k].midi < arg.melody[k].midi
               ELSE res[1].notes[k].midi > arg.melody[k].midi

(***************************************************************************)
(* Claim about the notes of the measures (checked under SpecQuant)         *)
(***************************************************************************)
\* measures.flat()
RECURSIVE flat(_)
flat(measureList) ==
    IF measureList = <<>> THEN <<>>
    ELSE flat(SubSeq(measureList, 1, Len(measureList) - 1)) \o measureList[Len(measureList)]

\* C26: for a quantized note list with non-decreasing startBeat >= 0 and any
\* beatsPerMeasure > 0, the measures of groupIntoMeasures, concatenated, are
\* the input notes in the same order (same count, midi and duration), and
\* every returned note's relative startBeat lies in [0, beatsPerMeasure).
C26_MeasuresConcatenateToTheNotes ==
    fn = "groupIntoMeasures" =>
        /\ Len(flat(res)) = Len(arg.qnotes)
        /\ \A i \in 1..Len(arg.qnotes) :
              /\ flat(res)[i].midi = arg.qnotes[i].midi
              /\ flat(res)[i].duration = arg.qnotes[i].duration
              /\ flat(res)[i].durationBeats = arg.qnotes[i].durationBeats
              /\ flat(res)[i].startBeat >= 0
              /\ flat(res)[i].startBeat < 4 * arg.beats

\* C26 witness: three notes grouped into two measures, the last of them after
\* a measure that holds no note
C26_Witness ==
    /\ fn = "groupIntoMeasures"
    /\ Len(arg.qnotes) = 3
    /\ Len(res) = 2
    /\ arg.qnotes[1].startBeat < 4 * arg.beats
    /\ arg.qnotes[3].startBeat >= 8 * arg.beats

(***************************************************************************)
(* Claim about the chords of the chord track (checked under SpecChords)    *)
(***************************************************************************)
\* C27: after any sequence of chord add, edit and delete operations, adding a
\* chord at a beat where a chord already starts included, every chord of the
\* list has durationBeats > 0 and no two chords share a startBeat.
C27_ChordsDistinctAndLasting ==
    /\ \A i \in 1..Len(chords) : chords[i].durationBeats > 0
    /\ \A i, j \in 1..Len(chords) : i # j => chords[i].startBeat # chords[j].startBeat

\* a melody whose notes, in list order, do not overlap
NonOverlapping(noteList) ==
    \A k \in 1..Len(noteList) - 1 :
        noteList[k].startTime + noteList[k].duration <= noteList[k + 1].startTime

Reimported == arg.kind = "export" /\ fn = "parseMidiFile"

\* C29: for every exported note with duration > 0, at any tempo and start
\* time, its note-on is in the track strictly before its own note-off, so
\* that parseMidiFile's pairing of note-ons with note-offs recovers exactly
\* one note per exported note of a non-overlapping melody.
C29_NoteOnBeforeItsNoteOff ==
    (Reimported /\ NonOverlapping(arg.notes)
       /\ \A k \in 1..Len(arg.notes) : arg.notes[k].duration > 0) =>
        /\ \A k \in 1..Len(arg.notes) :
              \E i, j \in 1..Len(res.events) :
                 /\ i < j
                 /\ res.events[i].type = "noteOn" /\ res.events[i].note = arg.notes[k].midi
                 /\ res.events[i].tick = secondsToTicks(arg.notes[k].startTime, arg.tempo)
                 /\ res.events[j].type = "noteOff" /\ res.events[j].note = arg.notes[k].midi
                 /\ res.events[j].tick = secondsToTicks(arg.notes[k].startTime
                                                        + arg.notes[k].duration, arg.tempo)
        /\ Len(res.imported.notes) = Len(arg.notes)
        /\ \A k \in 1..Len(arg.notes) : res.imported.notes[k].midi = arg.notes[k].midi

(***************************************************************************)
(* Playback: the usePlayback hook over the page's notes, the soundfont     *)
(* module's instrument and the timeouts of schedulePlayback.  The hook's   *)
(* note list is the page's `notes` (no harmony voice and no chord added).  *)
(* cursorPosition and currentNoteIndex are 0-based as in the source.       *)
(* A playFromIndex call that awaits is a record of `calls` (in call        *)
(* order): the note count and startFromIndex its closure captured, and the *)
(* await it is at.  A scheduled playback is a record of `sessions`:        *)
(* stopFnRef holds the index of the session it would stop, 0 for null.     *)
(***************************************************************************)
\* the state an AudioContext can be created in (the browser's autoplay policy)
CreatedContextStates == {"suspended", "running"}

SeekIndices == -1..MaxNotes

\* the hook's state as one record, threaded through the steps of playFromIndex
Player ==
    [isPlaying |-> isPlaying, currentNoteIndex |-> currentNoteIndex,
     isLoading |-> isLoading, instrumentRef |-> instrumentRef,
     stopFnRef |-> stopFnRef, progressIntervalRef |-> progressIntervalRef,
     calls |-> calls, sessions |-> sessions, instrument |-> instrument]

SetPlayer(p) ==
    /\ isPlaying' = p.isPlaying
    /\ currentNoteIndex' = p.currentNoteIndex
    /\ isLoading' = p.isLoading
    /\ instrumentRef' = p.instrumentRef
    /\ stopFnRef' = p.stopFnRef
    /\ progressIntervalRef' = p.progressIntervalRef
    /\ calls' = p.calls
    /\ sessions' = p.sessions
    /\ instrument' = p.instrument

\* the catch of playFromIndex
playbackError(p) == [p EXCEPT !.isLoading = FALSE, !.isPlaying = FALSE]

\* schedulePlayback: one timeout per note of notes.slice(startFromIndex), then
\* the completion timeout if there is any note
schedulePlayback(call) ==
    [startFromIndex |-> call.startFromIndex,
     notesToPlay |-> IF call.noteCount > call.startFromIndex
                     THEN call.noteCount - call.startFromIndex ELSE 0,
     fired |-> 0, stopped |-> FALSE, completed |-> FALSE]

\* playFromIndex after its awaits: notes[startFromIndex].startTime throws when
\* startFromIndex > 0 is no index of the captured notes
startPlayback(p, call) ==
    IF call.startFromIndex > 0 /\ call.startFromIndex >= call.noteCount
    THEN playbackError(p)
    ELSE [p EXCEPT !.isLoading = FALSE,
                   !.isPlaying = TRUE,
                   !.currentNoteIndex = call.startFromIndex,
                   !.progressIntervalRef = TRUE,
                   !.sessions = Append(@, schedulePlayback(call)),
                   !.stopFnRef = Len(p.sessions) + 1]

\* playFromIndex once the context runs: loadInstrument unless instrumentRef is
\* set; a loaded instrument is returned at once, otherwise the call awaits the
\* module's loadingPromise
afterResume(p, call) ==
    IF p.instrumentRef THEN startPlayback(p, call)
    ELSE IF p.instrument = "loaded"
    THEN startPlayback([p EXCEPT !.instrumentRef = TRUE], call)
    ELSE [p EXCEPT !.instrument = "loading",
                   !.calls = Append(@, [call EXCEPT !.stage = "load"])]

RECURSIVE ResumeLoop(_, _)
ResumeLoop(p, waiting) ==
    IF waiting = <<>> THEN p
    ELSE ResumeLoop(afterResume(p, Head(waiting)), Tail(waiting))

RECURSIVE LoadedLoop(_, _)
LoadedLoop(p, waiting) ==
    IF waiting = <<>> THEN p
    ELSE LoadedLoop(startPlayback([p EXCEPT !.instrumentRef = TRUE], Head(waiting)),
                    Tail(waiting))

CallsAt(stage) == SelectSeq(calls, LAMBDA c : c.stage = stage)

\* playFromIndex up to its first real wait
playFromIndex(startFromIndex, created) ==
    LET call == [startFromIndex |-> startFromIndex, noteCount |-> Len(notes),
                 stage |-> "resume"]
        ctx == IF audioContextState = "null" THEN created ELSE audioContextState
    IN  IF Len(notes) = 0
        THEN UNCHANGED <<isPlaying, currentNoteIndex, isLoading, instrumentRef,
                         stopFnRef, progressIntervalRef, calls, sessions,
                         instrument, audioContextState>>
        ELSE /\ audioContextState' = ctx
             /\ IF ctx = "suspended"
                THEN SetPlayer([Player EXCEPT !.isLoading = TRUE,
                                              !.calls = Append(@, call)])
                ELSE SetPlayer(afterResume([Player EXCEPT !.isLoading = TRUE], call))

\* the body of stop
stopPlayback ==
    /\ sessions' = IF stopFnRef # 0
                   THEN [sessions EXCEPT ![stopFnRef].stopped = TRUE] ELSE sessions
    /\ stopFnRef' = 0
    /\ progressIntervalRef' = FALSE
    /\ isPlaying' = FALSE
    /\ currentNoteIndex' = -1
    /\ userStopped' = TRUE
    /\ UNCHANGED <<cursorPosition, isLoading, instrumentRef, calls, instrument,
                   audioContextState>>

play(created) ==
    /\ playFromIndex(cursorPosition, created)
    /\ userStopped' = FALSE
    /\ lastOp' = "play"
    /\ Event
    /\ UNCHANGED <<pureVars, cursorPosition, noteVars, settingVars, chords, loadVars,
                   trackVars>>

playFrom(noteIndex, created) ==
    /\ cursorPosition' = noteIndex
    /\ playFromIndex(noteIndex, created)
    /\ userStopped' = FALSE
    /\ lastOp' = "playFrom"
    /\ Event
    /\ UNCHANGED <<pureVars, noteVars, settingVars, chords, loadVars, trackVars>>

stop ==
    /\ stopPlayback
    /\ lastOp' = "stop"
    /\ Event
    /\ UNCHANGED <<pureVars, noteVars, settingVars, chords, loadVars, trackVars>>

toggle(created) ==
    /\ IF isPlaying
       THEN stopPlayback
       ELSE /\ playFromIndex(cursorPosition, created)
            /\ userStopped' = FALSE
            /\ UNCHANGED cursorPosition
    /\ lastOp' = "toggle"
    /\ Event
    /\ UNCHANGED <<pureVars, noteVars, settingVars, chords, loadVars, trackVars>>

\* handleSeek: setCursorPosition clamps to the notes of this render
setCursorPosition(noteIndex) ==
    /\ cursorPosition' = Max(0, Min(noteIndex, Len(notes) - 1))
    /\ lastOp' = "setCursorPosition"
    /\ Event
    /\ UNCHANGED <<pureVars, isPlaying, currentNoteIndex, isLoading, instrumentRef,
                   stopFnRef, progressIntervalRef, calls, sessions, userStopped,
                   instrument, audioContextState, noteVars, settingVars, chords,
                   loadVars, trackVars>>

\* the context starts running: every call awaiting resumeContext continues
resumeSettled ==
    /\ CallsAt("resume") # <<>>
    /\ audioContextState' = "running"
    /\ SetPlayer(ResumeLoop([Player EXCEPT !.calls = CallsAt("load")], CallsAt("resume")))
    /\ lastOp' = "resumeSettled"
    /\ UNCHANGED <<pureVars, cursorPosition, userStopped, noteVars, settingVars,
                   chords, loadVars, trackVars, events>>

\* the soundfont arrives: every call awaiting loadingPromise continues
instrumentLoaded ==
    /\ instrument = "loading"
    /\ SetPlayer(LoadedLoop([Player EXCEPT !.instrument = "loaded",
                                           !.calls = CallsAt("resume")],
                            CallsAt("load")))
    /\ lastOp' = "instrumentLoaded"
    /\ UNCHANGED <<pureVars, cursorPosition, userStopped, audioContextState, noteVars,
                   settingVars, chords, loadVars, trackVars, events>>

\* the soundfont fails to load: loadingPromise is reset and every awaiting
\* call lands in its catch
instrumentFailed ==
    /\ instrument = "loading"
    /\ instrument' = "null"
    /\ calls' = CallsAt("resume")
    /\ isLoading' = FALSE
    /\ isPlaying' = FALSE
    /\ lastOp' = "instrumentFailed"
    /\ UNCHANGED <<pureVars, cursorPosition, currentNoteIndex, instrumentRef, stopFnRef,
                   progressIntervalRef, sessions, userStopped, audioContextState,
                   noteVars, settingVars, chords, loadVars, trackVars, events>>

\* a note's timeout of schedulePlayback fires (stop clears the timeouts)
noteTimeout(s) ==
    /\ ~sessions[s].stopped
    /\ sessions[s].fired < sessions[s].notesToPlay
    /\ currentNoteIndex' = sessions[s].startFromIndex + sessions[s].fired
    /\ sessions' = [sessions EXCEPT ![s].fired = @ + 1]
    /\ lastOp' = "onNoteStart"
    /\ UNCHANGED <<pureVars, cursorPosition, isPlaying, isLoading, instrumentRef,
                   stopFnRef, progressIntervalRef, calls, userStopped, instrument,
                   audioContextState, noteVars, settingVars, chords, loadVars,
                   trackVars, events>>

\* the completion timeout fires after the last note's: onComplete
completeTimeout(s) ==
    /\ ~sessions[s].stopped
    /\ sessions[s].notesToPlay > 0
    /\ sessions[s].fired = sessions[s].notesToPlay
    /\ ~sessions[s].completed
    /\ sessions' = [sessions EXCEPT ![s].completed = TRUE]
    /\ isPlaying' = FALSE
    /\ currentNoteIndex' = -1
    /\ cursorPosition' = 0
    /\ lastOp' = "onComplete"
    /\ UNCHANGED <<pureVars, isLoading, instrumentRef, stopFnRef, progressIntervalRef,
                   calls, userStopped, instrument, audioContextState, noteVars,
                   settingVars, chords, loadVars, trackVars, events>>

InitPlayback ==
    /\ PageInit
    /\ arg = <<>>
    /\ fn = "idle"
    /\ res = <<>>

NextPlayback ==
    \/ \E midi \in LoadAddMidis, beat \in LoadAddBeats : handleNoteAdd(midi, beat)
    \/ \E noteIndex \in 0..Len(notes) : handleNoteSelect(noteIndex)
    \/ handleDeleteNote
    \/ handleClearAll
    \/ \E file \in AudioFiles : handleFileSelect(file)
    \/ \E req \in pending : analyzeSettled(req)
    \/ \E file \in MidiFiles : handleMidiSelect(file)
    \/ \E req \in pending : parseMidiSettled(req)
    \/ \E noteIndex \in SeekIndices : setCursorPosition(noteIndex)
    \/ \E created \in CreatedContextStates : play(created)
    \/ \E noteIndex \in 0..Max(0, Len(notes) - 1), created \in CreatedContextStates : playFrom(noteIndex, created)
    \/ stop
    \/ \E created \in CreatedContextStates : toggle(created)
    \/ resumeSettled
    \/ instrumentLoaded
    \/ instrumentFailed
    \/ \E s \in DOMAIN sessions : noteTimeout(s)
    \/ \E s \in DOMAIN sessions : completeTimeout(s)

SpecPlayback == InitPlayback /\ [][NextPlayback]_vars

\* C28: the playback cursor is always an index of the hook's note list (0 when
\* the list is empty), whatever seeks, plays, stops, note edits and file loads
\* came before.
C28_CursorIsValidIndex ==
    /\ cursorPosition >= 0
    /\ IF Len(notes) = 0 THEN cursorPosition = 0 ELSE cursorPosition < Len(notes)

\* C30: from a stop until the next play, playFrom or toggle that plays,
\* isPlaying is false, no scheduled note starts and no completion callback
\* fires, whatever resume or instrument load was still awaited.
C30_NothingPlaysAfterStop ==
    userStopped => ~isPlaying /\ lastOp \notin {"onNoteStart", "onComplete"}

====
